---- MODULE Spec2Model ----
(***************************************************************************)
(* OpenFlow state manager core (handlers.c): the flow-mod engine, the      *)
(* flow-table iteration tasks and the stats engine, as a state machine.    *)
(* One action per handler and one per task callback; every handler and     *)
(* callback runs to completion (single-threaded cooperative scheduling).   *)
(* The flow table (ft.c), the entry deletion routine and the iteration     *)
(* task are not part of handlers.c; they are modelled from the design      *)
(* document and marked so in the model map.                                *)
(***************************************************************************)
EXTENDS Integers, Sequences, FiniteSets, TLC

VARIABLES
    ft,            \* ind_core_ft: the linked entries, in list order
    status,        \* ind_core_ft->status counters
    next_flow_id,  \* static counter of flow_id_next
    next_xid,      \* static counter of ind_core_xid_alloc
    fwd_flows,     \* flow ids the forwarding module holds
    tasks,         \* active iteration tasks (set of records)
    nmsgs,         \* number of inbound messages handed to handlers so far
    released,      \* released[i]: times of_object_delete ran on message i
    now,           \* INDIGO_CURRENT_TIME
    nullcalls,     \* nullcalls[i]: terminal callbacks the task of message i got
    last           \* what the last handler / callback did (wire, FWD calls, rv)

vars == <<ft, status, next_flow_id, next_xid, fwd_flows, tasks, nmsgs,
          released, now, nullcalls, last>>

----------------------------------------------------------------------------
(* Bounds of the model *)

MaxMsgs == 3

MaxTime == 1

(* Program constants *)

OF_VERSION_1_0 == 1

OF_VERSION_1_1 == 2

OF_VERSION_1_3 == 4

TABLE_ID_ANY == 255

OF_PORT_DEST_WILDCARD == 65535

(* A uint32_t is kept by its two's-complement bit pattern as an int32:     *)
(* 0 .. 2^31-1 are themselves, 0xFFFFFFFF is -1, and ++ wraps -1 to 0.     *)
INT32_MAX == 2147483647

U32Inc(x) == IF x = INT32_MAX THEN (-INT32_MAX) - 1 ELSE x + 1

UINT32_MAX == -1

XidStart == 1000

FlowIdStart == 1

StatsReplyLimit == 32768

Versions == {1, 2, 3, 4}

NULL == 0

(* Matches are sets of points of match space; strict equality is set      *)
(* equality, "more specific" is inclusion, overlap is a common point.      *)
M1 == {1}
M2 == {2}
MW == {1, 2}

----------------------------------------------------------------------------
(* Messages.  All inbound messages share one record shape; a handler reads *)
(* the fields its message type has.                                        *)

BaseMsg ==
    [kind |-> "flow_add", ver |-> 1, table_id |-> 0, match |-> MW,
     bad_match |-> FALSE, priority |-> 1, out_port |-> OF_PORT_DEST_WILDCARD,
     cookie |-> 0, cookie_mask |-> 0, flags |-> {}, idle_timeout |-> 0,
     hard_timeout |-> 0, eff |-> 1]

FlowModKinds == {"flow_add", "flow_modify", "flow_modify_strict",
                 "flow_delete", "flow_delete_strict"}

StatsKinds == {"flow_stats_request", "aggregate_stats_request"}

(* Collaborator responses a handler or callback may get during one run.    *)
BaseResp ==
    [alloc |-> TRUE,        \* INDIGO_MEM_ALLOC of the state struct succeeds
     spawn |-> "NONE",      \* ft_spawn_iter_task
     ft_add |-> "NONE",     \* ft_add
     fwd |-> "NONE",        \* indigo_fwd_flow_create / indigo_fwd_flow_modify
     fwd_table |-> 0,       \* table id indigo_fwd_flow_create reports
     stats |-> "NONE",      \* indigo_fwd_flow_stats_get
     reply |-> TRUE,        \* of_*_reply_new succeeds
     append |-> TRUE,       \* of_list_flow_stats_entry_append_bind succeeds
     send |-> TRUE,         \* IND_CORE_MSG_SEND / send_error_msg succeeds
     late |-> FALSE]        \* a new entry lands where running iterators still look

(* The object handed to a handler: the message, its identity and its xid.  *)
Obj(m, i) == [m EXCEPT !.kind = m.kind] @@ [id |-> i, xid |-> 100 + i]

----------------------------------------------------------------------------
(* The machine state a handler works on, as one record: the program state  *)
(* plus what this run has put on the wire and which FWD calls it made.     *)

Machine ==
    [ft |-> ft, status |-> status, next_flow_id |-> next_flow_id,
     next_xid |-> next_xid, fwd_flows |-> fwd_flows, tasks |-> tasks,
     released |-> released, now |-> now, wire |-> <<>>, calls |-> <<>>,
     replies |-> <<>>]

(* What a run did with reply objects, in order: "new" when it allocated    *)
(* one or got one from FWD or PORT, "delete" when it released one.         *)
reply_new(S) == [S EXCEPT !.replies = Append(@, "new")]

reply_delete(S) == [S EXCEPT !.replies = Append(@, "delete")]

(* of_object_delete on message i *)
of_object_delete(S, i) == [S EXCEPT !.released[i] = @ + 1]

(* indigo_cxn_send_error_msg / ind_core_send_error_msg *)
send_error_msg(S, ver, xid, etype, code, ok) ==
    [S EXCEPT !.wire = Append(@, [what |-> "error", ver |-> ver, xid |-> xid,
                                  etype |-> etype, code |-> code, ok |-> ok])]

(* IND_CORE_MSG_SEND *)
msg_send(S, reply, ok) ==
    [S EXCEPT !.wire = Append(@, [reply EXCEPT !.ok = ok])]

fwd_call(S, name, id) == [S EXCEPT !.calls = Append(@, <<name, id>>)]

(* ind_core_xid_alloc: return xid++ on a static uint32_t *)
ind_core_xid_alloc(S) ==
    [S |-> [S EXCEPT !.next_xid = U32Inc(@)],
     xid |-> S.next_xid]

(* flow_id_next: result = next_flow_id; if (++next_flow_id == 0) = 1 *)
flow_id_next(S) ==
    LET inc == U32Inc(S.next_flow_id)
    IN  [S |-> [S EXCEPT !.next_flow_id = IF inc = 0 THEN 1 ELSE inc],
         flow_id |-> S.next_flow_id]

----------------------------------------------------------------------------
(* Match queries *)

(* flow_mod_setup_query(obj, query, query_mode, force_wildcard_port) *)
flow_mod_setup_query(obj, query_mode, force_wildcard_port) ==
    IF obj.bad_match THEN [rv |-> "UNKNOWN", query |-> NULL]
    ELSE
    [rv |-> "NONE",
     query |->
       [table_id |-> IF obj.ver > OF_VERSION_1_0 THEN obj.table_id
                     ELSE TABLE_ID_ANY,
        match |-> obj.match,
        mode |-> query_mode,
        check_priority |-> query_mode \in {"STRICT", "OVERLAP"},
        priority |-> IF query_mode \in {"STRICT", "OVERLAP"}
                     THEN obj.priority ELSE 0,
        out_port |-> IF force_wildcard_port THEN OF_PORT_DEST_WILDCARD
                     ELSE obj.out_port,
        cookie |-> IF query_mode # "OVERLAP" /\ obj.ver >= OF_VERSION_1_1
                   THEN obj.cookie ELSE 0,
        cookie_mask |-> IF query_mode # "OVERLAP" /\ obj.ver >= OF_VERSION_1_1
                        THEN obj.cookie_mask ELSE 0]]

(* The query the two stats handlers build inline *)
stats_setup_query(obj) ==
    [table_id |-> obj.table_id,
     match |-> obj.match,
     mode |-> "NON_STRICT",
     check_priority |-> FALSE,
     priority |-> 0,
     out_port |-> obj.out_port,
     cookie |-> IF obj.ver >= OF_VERSION_1_1 THEN obj.cookie ELSE 0,
     cookie_mask |-> IF obj.ver >= OF_VERSION_1_1 THEN obj.cookie_mask ELSE 0]

(* Output port of an entry's single output action / instruction *)
EffectsPort(e) ==
    IF e.effects.actions # NULL THEN e.effects.actions
    ELSE e.effects.instructions

CookieOk(q, e) ==
    (e.version >= OF_VERSION_1_1 /\ q.cookie_mask # 0)
        => e.cookie = q.cookie

OutPortOk(q, e) ==
    q.out_port = OF_PORT_DEST_WILDCARD \/ q.out_port = EffectsPort(e)

(* ft_entry_meta_match(query, entry) *)
ft_entry_meta_match(q, e) ==
    /\ q.table_id = TABLE_ID_ANY \/ q.table_id = e.table_id
    /\ CASE q.mode = "STRICT" ->
              /\ e.match = q.match
              /\ e.priority = q.priority
              /\ CookieOk(q, e)
              /\ OutPortOk(q, e)
         [] q.mode = "NON_STRICT" ->
              /\ e.match \subseteq q.match
              /\ CookieOk(q, e)
              /\ OutPortOk(q, e)
         [] OTHER ->
              /\ e.match \cap q.match # {}
              /\ e.priority = q.priority

----------------------------------------------------------------------------
(* Flow table *)

Refs(f) == {f[i].ref : i \in 1..Len(f)}

EntryOf(f, ref) == f[CHOOSE i \in 1..Len(f) : f[i].ref = ref]

RECURSIVE Without(_, _)
Without(f, ref) ==
    IF f = <<>> THEN <<>>
    ELSE IF Head(f).ref = ref THEN Without(Tail(f), ref)
    ELSE <<Head(f)>> \o Without(Tail(f), ref)

(* The effects a flow-mod carries: actions at 1.0, instructions later *)
MsgEffects(obj) ==
    [wire_version |-> obj.ver,
     actions |-> IF obj.ver = OF_VERSION_1_0 THEN obj.eff ELSE NULL,
     instructions |-> IF obj.ver = OF_VERSION_1_0 THEN NULL ELSE obj.eff]

NewEntry(id, obj, t) ==
    [ref |-> obj.id, id |-> id, version |-> obj.ver,
     table_id |-> IF obj.ver > OF_VERSION_1_0 THEN obj.table_id ELSE 0,
     priority |-> obj.priority, match |-> obj.match, cookie |-> obj.cookie,
     flags |-> obj.flags, idle_timeout |-> obj.idle_timeout,
     hard_timeout |-> obj.hard_timeout, effects |-> MsgEffects(obj),
     insert_time |-> t]

(* ft_add: link a new entry; running iterators may or may not reach it *)
ft_add(S, id, obj, late) ==
    [S EXCEPT !.ft = Append(@, NewEntry(id, obj, S.now)),
              !.status.current_count = @ + 1,
              !.status.adds = @ + 1,
              !.tasks = {IF late THEN [k EXCEPT !.todo = @ \cup {obj.id}] ELSE k
                         : k \in @}]

(* ft_delete that leaves the cursors of running iterators alone *)
ft_delete_keep_cursor(S, ref) ==
    [S EXCEPT !.ft = Without(@, ref),
              !.status.current_count = @ - 1,
              !.status.deletes = @ + 1]

(* ft_delete: unlink; no iterator will deliver the entry afterwards *)
ft_delete(S, ref) ==
    [S EXCEPT !.ft = Without(@, ref),
              !.status.current_count = @ - 1,
              !.status.deletes = @ + 1,
              !.tasks = {[k EXCEPT !.todo = @ \ {ref}] : k \in @}]

(* ft_strict_match: index of the first entry the query matches, or 0 *)
ft_strict_match(f, q) ==
    LET hits == {i \in 1..Len(f) : ft_entry_meta_match(q, f[i])}
    IN  IF hits = {} THEN 0
        ELSE CHOOSE i \in hits : \A j \in hits : i <= j

(* ft_entry_modify_effects that stores the new list beside the old one *)
ft_entry_modify_effects_torn(S, ref, obj) ==
    [S EXCEPT !.ft = [i \in 1..Len(@) |->
                        IF @[i].ref = ref
                        THEN [@[i] EXCEPT
                                !.effects.wire_version = obj.ver,
                                !.effects.actions =
                                    IF obj.ver = OF_VERSION_1_0 THEN obj.eff
                                    ELSE @,
                                !.effects.instructions =
                                    IF obj.ver = OF_VERSION_1_0 THEN @
                                    ELSE obj.eff]
                        ELSE @[i]]]

(* ft_entry_modify_effects *)
ft_entry_modify_effects(S, ref, obj) ==
    [S EXCEPT !.ft = [i \in 1..Len(@) |->
                        IF @[i].ref = ref
                        THEN [@[i] EXCEPT !.effects = MsgEffects(obj)]
                        ELSE @[i]]]

(* ind_core_flow_entry_delete(entry, reason, cxn_id) *)
ind_core_flow_entry_delete(S, ref, reason) ==
    LET e  == EntryOf(S.ft, ref)
        S1 == [fwd_call(S, "flow_delete", e.id)
                  EXCEPT !.fwd_flows = @ \ {e.id}]
        a  == ind_core_xid_alloc(S1)
        S2 == IF "SEND_FLOW_REM" \in e.flags /\ reason # "OVERWRITE"
              THEN msg_send(a.S, [what |-> "flow_removed", ver |-> e.effects.wire_version,
                                  xid |-> a.xid, flow |-> e.id,
                                  reason |-> reason, ok |-> TRUE], TRUE)
              ELSE S1
    IN  ft_delete(S2, ref)

----------------------------------------------------------------------------
(* Iteration tasks *)

NoReply == <<>>

TaskOf(S, id) == CHOOSE k \in S.tasks : k.id = id

SetTask(S, k2) ==
    [S EXCEPT !.tasks = {IF k.id = k2.id THEN k2 ELSE k : k \in @}]

(* The task is destroyed after the terminal callback; INDIGO_MEM_FREE(state) *)
EndTask(S, id) == [S EXCEPT !.tasks = {k \in @ : k.id # id}]

NewTask(kind, obj, q, S) ==
    [id |-> obj.id, kind |-> kind, req |-> obj, query |-> q,
     todo |-> Refs(S.ft), snap |-> {e \in Refs(S.ft) :
                                      ft_entry_meta_match(q, EntryOf(S.ft, e))},
     seen |-> <<>>, num_matched |-> 0, reply |-> NoReply,
     current_time |-> S.now, packets |-> 0, bytes |-> 0, flows |-> 0]

(* ft_spawn_iter_task(ft, query, cb, cookie, priority) *)
ft_spawn_iter_task(S, kind, obj, q) ==
    [S EXCEPT !.tasks = @ \cup {NewTask(kind, obj, q, S)}]

(* Index in ft of the next entry the task delivers, or 0 at the end *)
NextIndex(f, k) ==
    LET hits == {i \in 1..Len(f) :
                   f[i].ref \in k.todo /\ ft_entry_meta_match(k.query, f[i])}
    IN  IF hits = {} THEN 0
        ELSE CHOOSE i \in hits : \A j \in hits : i <= j

(* An iterator that does not move past the entry it delivers *)
Advance_stay(f, k, i) ==
    [k EXCEPT !.todo = @ \ {f[j].ref : j \in 1..(i - 1)},
              !.seen = Append(@, f[i].ref)]

(* The iterator moves past everything up to and including entry i *)
Advance(f, k, i) ==
    [k EXCEPT !.todo = @ \ {f[j].ref : j \in 1..i},
              !.seen = Append(@, f[i].ref)]

----------------------------------------------------------------------------
(* Flow-mod engine *)

(* flow_mod_err_msg_send(indigo_err, ver, cxn_id, flow_mod) *)
flow_mod_err_msg_send(S, indigo_err, ver, obj, ok) ==
    IF indigo_err = "NONE" THEN S
    ELSE send_error_msg(S, ver, obj.xid, "FLOW_MOD_FAILED",
            CASE indigo_err = "RESOURCE" -> "ALL_TABLES_FULL"
              [] indigo_err = "NOT_SUPPORTED" -> "UNSUPPORTED"
              [] OTHER -> "EPERM",
            ok)

(* overlap_found that looks for an identical entry, not an overlapping one *)
overlap_found_strict(f, obj) ==
    LET q == flow_mod_setup_query(obj, "STRICT", TRUE)
    IN  IF q.rv # "NONE" THEN -1
        ELSE IF \E i \in 1..Len(f) : ft_entry_meta_match(q.query, f[i])
             THEN 1 ELSE 0

(* overlap_found: 1 found, 0 not found, <0 on error *)
overlap_found(f, obj) ==
    LET q == flow_mod_setup_query(obj, "OVERLAP", TRUE)
    IN  IF q.rv # "NONE" THEN -1
        ELSE IF \E i \in 1..Len(f) : ft_entry_meta_match(q.query, f[i])
             THEN 1 ELSE 0

(* The tail of ind_core_flow_add_handler writing the wrong status field   *)
(* when FWD refuses the flow                                             *)
flow_add_insert_miscount(S, obj, r) ==
    LET n  == flow_id_next(S)
        S1 == ft_add(n.S, n.flow_id, obj, r.late)
        S2 == fwd_call(S1, "flow_create", n.flow_id)
    IN  IF r.ft_add # "NONE" THEN n.S
        ELSE IF r.fwd = "NONE"
        THEN [S2 EXCEPT
                !.fwd_flows = @ \cup {n.flow_id},
                !.ft = [i \in 1..Len(@) |->
                          IF @[i].ref = obj.id
                          THEN [@[i] EXCEPT !.table_id = r.fwd_table]
                          ELSE @[i]]]
        ELSE ft_delete(
               flow_mod_err_msg_send(
                 [S2 EXCEPT !.status.current_count = @ + 1],
                 r.fwd, obj.ver, obj, r.send),
               obj.id)

(* The tail of ind_core_flow_add_handler, from flow_id_next on *)
(* An insertion that leaves the entry in the table when FWD refuses it *)
flow_add_insert_keep(S, obj, r) ==
    LET n  == flow_id_next(S)
        S1 == ft_add(n.S, n.flow_id, obj, r.late)
        S2 == fwd_call(S1, "flow_create", n.flow_id)
    IN  IF r.ft_add # "NONE" THEN n.S
        ELSE IF r.fwd = "NONE"
        THEN [S2 EXCEPT
                !.fwd_flows = @ \cup {n.flow_id},
                !.ft = [i \in 1..Len(@) |->
                          IF @[i].ref = obj.id
                          THEN [@[i] EXCEPT !.table_id = r.fwd_table]
                          ELSE @[i]]]
        ELSE flow_mod_err_msg_send(
               [S2 EXCEPT !.status.forwarding_add_errors = @ + 1],
               r.fwd, obj.ver, obj, r.send)

flow_add_insert(S, obj, r) ==
    LET n  == flow_id_next(S)
        S1 == ft_add(n.S, n.flow_id, obj, r.late)
        S2 == fwd_call(S1, "flow_create", n.flow_id)
    IN  IF r.ft_add # "NONE" THEN n.S
        ELSE IF r.fwd = "NONE"
        THEN [S2 EXCEPT
                !.fwd_flows = @ \cup {n.flow_id},
                !.ft = [i \in 1..Len(@) |->
                          IF @[i].ref = obj.id
                          THEN [@[i] EXCEPT !.table_id = r.fwd_table]
                          ELSE @[i]]]
        ELSE ft_delete(
               flow_mod_err_msg_send(
                 [S2 EXCEPT !.status.forwarding_add_errors = @ + 1],
                 r.fwd, obj.ver, obj, r.send),
               obj.id)

(* ind_core_flow_add_handler ending in "return rv" *)
ind_core_flow_add_handler_returns_rv(S, obj, r) ==
    LET q   == flow_mod_setup_query(obj, "STRICT", TRUE)
        hit == ft_strict_match(S.ft, q.query)
        S1  == IF hit # 0
               THEN ind_core_flow_entry_delete(S, S.ft[hit].ref, "OVERWRITE")
               ELSE S
    IN  IF "CHECK_OVERLAP" \in obj.flags /\ overlap_found(S.ft, obj) # 0
        THEN [S |-> of_object_delete(
                      send_error_msg(S, obj.ver, obj.xid, "FLOW_MOD_FAILED",
                                     "OVERLAP", r.send), obj.id),
              rv |-> "NONE"]
        ELSE IF "EMERG" \in obj.flags
                /\ (obj.idle_timeout # 0 \/ obj.hard_timeout # 0)
        THEN [S |-> of_object_delete(
                      send_error_msg(S, obj.ver, obj.xid, "FLOW_MOD_FAILED",
                                     "BAD_EMERG_TIMEOUT", r.send), obj.id),
              rv |-> "PARAM"]
        ELSE IF q.rv # "NONE"
        THEN [S |-> of_object_delete(S, obj.id), rv |-> q.rv]
        ELSE [S |-> of_object_delete(flow_add_insert(S1, obj, r), obj.id),
              rv |-> IF r.ft_add # "NONE" THEN r.ft_add ELSE r.fwd]

(* ind_core_flow_add_handler without the emergency-timeout check *)
ind_core_flow_add_handler_no_emerg_check(S, obj, r) ==
    LET q   == flow_mod_setup_query(obj, "STRICT", TRUE)
        hit == ft_strict_match(S.ft, q.query)
        S1  == IF hit # 0
               THEN ind_core_flow_entry_delete(S, S.ft[hit].ref, "OVERWRITE")
               ELSE S
        out ==
          IF "CHECK_OVERLAP" \in obj.flags /\ overlap_found(S.ft, obj) # 0
          THEN send_error_msg(S, obj.ver, obj.xid, "FLOW_MOD_FAILED",
                              "OVERLAP", r.send)
          ELSE IF q.rv # "NONE" THEN S
          ELSE flow_add_insert(S1, obj, r)
    IN  [S |-> of_object_delete(out, obj.id), rv |-> "NONE"]

(* ind_core_flow_add_handler that leaves a strictly matching entry alone *)
ind_core_flow_add_handler_no_overwrite(S, obj, r) ==
    LET q   == flow_mod_setup_query(obj, "STRICT", TRUE)
        out ==
          IF "CHECK_OVERLAP" \in obj.flags /\ overlap_found(S.ft, obj) # 0
          THEN send_error_msg(S, obj.ver, obj.xid, "FLOW_MOD_FAILED",
                              "OVERLAP", r.send)
          ELSE IF "EMERG" \in obj.flags
                  /\ (obj.idle_timeout # 0 \/ obj.hard_timeout # 0)
          THEN send_error_msg(S, obj.ver, obj.xid, "FLOW_MOD_FAILED",
                              "BAD_EMERG_TIMEOUT", r.send)
          ELSE IF q.rv # "NONE" THEN S
          ELSE flow_add_insert(S, obj, r)
    IN  [S |-> of_object_delete(out, obj.id), rv |-> "NONE"]

(* ind_core_flow_add_handler(_obj, cxn_id) *)
ind_core_flow_add_handler(S, obj, r) ==
    LET q   == flow_mod_setup_query(obj, "STRICT", TRUE)
        hit == ft_strict_match(S.ft, q.query)
        S1  == IF hit # 0
               THEN ind_core_flow_entry_delete(S, S.ft[hit].ref, "OVERWRITE")
               ELSE S
        out ==
          IF "CHECK_OVERLAP" \in obj.flags /\ overlap_found(S.ft, obj) # 0
          THEN send_error_msg(S, obj.ver, obj.xid, "FLOW_MOD_FAILED",
                              "OVERLAP", r.send)
          ELSE IF "EMERG" \in obj.flags
                  /\ (obj.idle_timeout # 0 \/ obj.hard_timeout # 0)
          THEN send_error_msg(S, obj.ver, obj.xid, "FLOW_MOD_FAILED",
                              "BAD_EMERG_TIMEOUT", r.send)
          ELSE IF q.rv # "NONE" THEN S
          ELSE flow_add_insert(S1, obj, r)
    IN  [S |-> of_object_delete(out, obj.id), rv |-> "NONE"]

(* modify_iter_cb whose terminal call only releases the request *)
modify_iter_cb_no_add(S, id, ref, r) ==
    LET state == TaskOf(S, id)
        S1 == fwd_call(SetTask(S, [state EXCEPT !.num_matched = @ + 1]),
                       "flow_modify", EntryOf(S.ft, ref).id)
    IN  IF ref # 0
        THEN IF r.fwd = "NONE"
             THEN ft_entry_modify_effects(S1, ref, state.req)
             ELSE flow_mod_err_msg_send(S1, r.fwd, state.req.ver, state.req,
                                        r.send)
        ELSE EndTask(of_object_delete(S, state.req.id), id)

(* modify_iter_cb(cookie, entry); ref = 0 is the NULL entry *)
(* A MODIFY callback that rewrites the effects whatever FWD answered *)
modify_iter_cb_regardless(S, id, ref, r) ==
    LET state == TaskOf(S, id)
        S1 == fwd_call(SetTask(S, [state EXCEPT !.num_matched = @ + 1]),
                       "flow_modify", EntryOf(S.ft, ref).id)
    IN  IF ref # 0
        THEN IF r.fwd = "NONE"
             THEN ft_entry_modify_effects(S1, ref, state.req)
             ELSE ft_entry_modify_effects(
                    flow_mod_err_msg_send(S1, r.fwd, state.req.ver, state.req,
                                          r.send),
                    ref, state.req)
        ELSE EndTask(IF state.num_matched = 0
                     THEN ind_core_flow_add_handler(S, state.req, r).S
                     ELSE of_object_delete(S, state.req.id),
                     id)

modify_iter_cb(S, id, ref, r) ==
    LET state == TaskOf(S, id)
        S1 == fwd_call(SetTask(S, [state EXCEPT !.num_matched = @ + 1]),
                       "flow_modify", EntryOf(S.ft, ref).id)
    IN  IF ref # 0
        THEN IF r.fwd = "NONE"
             THEN ft_entry_modify_effects(S1, ref, state.req)
             ELSE flow_mod_err_msg_send(S1, r.fwd, state.req.ver, state.req,
                                        r.send)
        ELSE EndTask(IF state.num_matched = 0
                     THEN ind_core_flow_add_handler(S, state.req, r).S
                     ELSE of_object_delete(S, state.req.id),
                     id)

(* ind_core_flow_modify_handler(_obj, cxn_id) *)
ind_core_flow_modify_handler(S, obj, r) ==
    LET q == flow_mod_setup_query(obj, "NON_STRICT", TRUE)
    IN  IF ~r.alloc THEN [S |-> S, rv |-> "RESOURCE"]
        ELSE IF q.rv # "NONE"
        THEN [S |-> of_object_delete(S, obj.id), rv |-> q.rv]
        ELSE IF r.spawn # "NONE"
        THEN [S |-> of_object_delete(S, obj.id), rv |-> r.spawn]
        ELSE [S |-> ft_spawn_iter_task(S, "modify", obj, q.query),
              rv |-> "NONE"]

(* ind_core_flow_modify_strict_handler(_obj, cxn_id) *)
ind_core_flow_modify_strict_handler(S, obj, r) ==
    LET q   == flow_mod_setup_query(obj, "STRICT", TRUE)
        hit == ft_strict_match(S.ft, q.query)
        S1  == fwd_call(S, "flow_modify", S.ft[hit].id)
    IN  IF q.rv # "NONE"
        THEN [S |-> of_object_delete(S, obj.id), rv |-> q.rv]
        ELSE IF hit = 0
        THEN ind_core_flow_add_handler(S, obj, r)
        ELSE [S |-> of_object_delete(
                      IF r.fwd = "NONE"
                      THEN ft_entry_modify_effects(S1, S.ft[hit].ref, obj)
                      ELSE flow_mod_err_msg_send(S1, r.fwd, obj.ver, obj,
                                                 r.send),
                      obj.id),
              rv |-> r.fwd]

(* delete_iter_cb that leaves the entries it is given in the table *)
delete_iter_cb_keep(S, id, ref, r) ==
    IF ref # 0
    THEN S
    ELSE EndTask(of_object_delete(S, TaskOf(S, id).req.id), id)

(* delete_iter_cb(cookie, entry) *)
delete_iter_cb(S, id, ref, r) ==
    IF ref # 0
    THEN ind_core_flow_entry_delete(S, ref, "DELETE")
    ELSE EndTask(of_object_delete(S, TaskOf(S, id).req.id), id)

(* ind_core_flow_delete_handler building its query with the out-port       *)
(* forced to the wildcard, as MODIFY does                                  *)
ind_core_flow_delete_handler_any_port(S, obj, r) ==
    LET q == flow_mod_setup_query(obj, "NON_STRICT", TRUE)
    IN  IF ~r.alloc
        THEN [S |-> of_object_delete(S, obj.id), rv |-> "RESOURCE"]
        ELSE IF q.rv # "NONE"
        THEN [S |-> of_object_delete(S, obj.id), rv |-> q.rv]
        ELSE IF r.spawn # "NONE"
        THEN [S |-> of_object_delete(S, obj.id), rv |-> r.spawn]
        ELSE [S |-> ft_spawn_iter_task(S, "delete", obj, q.query),
              rv |-> "NONE"]

(* ind_core_flow_delete_handler registering the callback of MODIFY *)
ind_core_flow_delete_handler_modify_cb(S, obj, r) ==
    LET q == flow_mod_setup_query(obj, "NON_STRICT", FALSE)
    IN  IF ~r.alloc
        THEN [S |-> of_object_delete(S, obj.id), rv |-> "RESOURCE"]
        ELSE IF q.rv # "NONE"
        THEN [S |-> of_object_delete(S, obj.id), rv |-> q.rv]
        ELSE IF r.spawn # "NONE"
        THEN [S |-> of_object_delete(S, obj.id), rv |-> r.spawn]
        ELSE [S |-> ft_spawn_iter_task(S, "modify", obj, q.query),
              rv |-> "NONE"]

(* ind_core_flow_delete_handler(_obj, cxn_id) *)
ind_core_flow_delete_handler(S, obj, r) ==
    LET q == flow_mod_setup_query(obj, "NON_STRICT", FALSE)
    IN  IF ~r.alloc
        THEN [S |-> of_object_delete(S, obj.id), rv |-> "RESOURCE"]
        ELSE IF q.rv # "NONE"
        THEN [S |-> of_object_delete(S, obj.id), rv |-> q.rv]
        ELSE IF r.spawn # "NONE"
        THEN [S |-> of_object_delete(S, obj.id), rv |-> r.spawn]
        ELSE [S |-> ft_spawn_iter_task(S, "delete", obj, q.query),
              rv |-> "NONE"]

(* ind_core_flow_delete_strict_handler(_obj, cxn_id) *)
ind_core_flow_delete_strict_handler(S, obj, r) ==
    LET q   == flow_mod_setup_query(obj, "STRICT", FALSE)
        hit == ft_strict_match(S.ft, q.query)
    IN  IF q.rv # "NONE"
        THEN [S |-> of_object_delete(S, obj.id), rv |-> q.rv]
        ELSE [S |-> of_object_delete(
                      IF hit # 0
                      THEN ind_core_flow_entry_delete(S, S.ft[hit].ref,
                                                      "DELETE")
                      ELSE S,
                      obj.id),
              rv |-> "NONE"]

----------------------------------------------------------------------------
(* Stats engine *)

(* indigo_fwd_flow_stats_get: the counters FWD keeps for a flow id *)
FwdFlowStats(id) == [packets |-> (id % 4) + 1, bytes |-> 10 * ((id % 4) + 1)]

(* Wire length of an empty flow-stats reply and of one entry in it *)
StatsReplyHeaderLen == 16

StatsEntryLen == 20000

(* calc_duration(current_time, insert_time, &secs, &nsecs), in ticks *)
calc_duration(current_time, insert_time) == current_time - insert_time

NewFlowStatsReply(req) ==
    [what |-> "flow_stats_reply", ver |-> req.ver, xid |-> req.xid,
     flags |-> 1, entries |-> <<>>, length |-> StatsReplyHeaderLen,
     ok |-> TRUE]

(* The of_flow_stats_entry appended for an entry *)
StatsEntry(state, e) ==
    [ref |-> e.ref, flow |-> e.id, cookie |-> e.cookie,
     priority |-> e.priority, idle_timeout |-> e.idle_timeout,
     hard_timeout |-> e.hard_timeout,
     flags |-> IF state.req.ver >= OF_VERSION_1_3 THEN e.flags ELSE {},
     match |-> e.match,
     actions |-> IF state.req.ver = OF_VERSION_1_0
                 THEN e.effects.actions ELSE NULL,
     instructions |-> IF state.req.ver = OF_VERSION_1_0
                      THEN NULL ELSE e.effects.instructions,
     table_id |-> e.table_id,
     duration |-> calc_duration(state.current_time, e.insert_time),
     packet_count |-> FwdFlowStats(e.id).packets,
     byte_count |-> FwdFlowStats(e.id).bytes]

(* ind_core_flow_stats_iter without the comparison of wire versions *)
ind_core_flow_stats_iter_any_version(S, id, ref, r) ==
    LET state0 == TaskOf(S, id)
        fresh  == state0.reply = NoReply
        state  == IF fresh
                  THEN [state0 EXCEPT !.reply = <<NewFlowStatsReply(state0.req)>>]
                  ELSE state0
        T      == IF fresh THEN reply_new(S) ELSE S
        e      == EntryOf(S.ft, ref)
        full   == [state EXCEPT
                     !.reply[1].entries = Append(@, StatsEntry(state, e)),
                     !.reply[1].length = @ + StatsEntryLen]
    IN  IF fresh /\ ~r.reply
        THEN IF ref = 0
             THEN EndTask(of_object_delete(S, state0.req.id), id)
             ELSE S
        ELSE IF ref = 0
        THEN EndTask(of_object_delete(
                       msg_send(T, [state.reply[1] EXCEPT !.flags = 0], r.send),
                       state.req.id),
                     id)
        ELSE IF r.stats # "NONE" THEN SetTask(T, state)
        ELSE IF ~r.append THEN SetTask(T, state)
        ELSE IF full.reply[1].length > StatsReplyLimit
        THEN SetTask(msg_send(T, full.reply[1], r.send),
                     [full EXCEPT !.reply = NoReply])
        ELSE SetTask(T, full)

(* ind_core_flow_stats_iter that leaves the more flag set on the last      *)
(* reply                                                                   *)
ind_core_flow_stats_iter_more_set(S, id, ref, r) ==
    LET state0 == TaskOf(S, id)
        fresh  == state0.reply = NoReply
        state  == IF fresh
                  THEN [state0 EXCEPT !.reply = <<NewFlowStatsReply(state0.req)>>]
                  ELSE state0
        T      == IF fresh THEN reply_new(S) ELSE S
        e      == EntryOf(S.ft, ref)
        full   == [state EXCEPT
                     !.reply[1].entries = Append(@, StatsEntry(state, e)),
                     !.reply[1].length = @ + StatsEntryLen]
    IN  IF fresh /\ ~r.reply
        THEN IF ref = 0
             THEN EndTask(of_object_delete(S, state0.req.id), id)
             ELSE S
        ELSE IF ref = 0
        THEN EndTask(of_object_delete(
                       msg_send(T, state.reply[1], r.send),
                       state.req.id),
                     id)
        ELSE IF r.stats # "NONE" THEN SetTask(T, state)
        ELSE IF state.req.ver # e.effects.wire_version THEN SetTask(T, state)
        ELSE IF ~r.append THEN SetTask(T, state)
        ELSE IF full.reply[1].length > StatsReplyLimit
        THEN SetTask(msg_send(T, full.reply[1], r.send),
                     [full EXCEPT !.reply = NoReply])
        ELSE SetTask(T, full)

(* A flow-stats callback that sends the segment without the entry that   *)
(* took it over the limit                                                *)
ind_core_flow_stats_iter_drop(S, id, ref, r) ==
    LET state0 == TaskOf(S, id)
        fresh  == state0.reply = NoReply
        state  == IF fresh
                  THEN [state0 EXCEPT !.reply = <<NewFlowStatsReply(state0.req)>>]
                  ELSE state0
        T      == IF fresh THEN reply_new(S) ELSE S
        e      == EntryOf(S.ft, ref)
        full   == [state EXCEPT
                     !.reply[1].entries = Append(@, StatsEntry(state, e)),
                     !.reply[1].length = @ + StatsEntryLen]
    IN  IF fresh /\ ~r.reply
        THEN IF ref = 0
             THEN EndTask(of_object_delete(S, state0.req.id), id)
             ELSE S
        ELSE IF ref = 0
        THEN EndTask(of_object_delete(
                       msg_send(T, [state.reply[1] EXCEPT !.flags = 0], r.send),
                       state.req.id),
                     id)
        ELSE IF r.stats # "NONE" THEN SetTask(T, state)
        ELSE IF state.req.ver # e.effects.wire_version THEN SetTask(T, state)
        ELSE IF ~r.append THEN SetTask(T, state)
        ELSE IF full.reply[1].length > StatsReplyLimit
        THEN SetTask(msg_send(T, state.reply[1], r.send),
                     [full EXCEPT !.reply = NoReply])
        ELSE SetTask(T, full)

(* A flow-stats callback that sends the segment after every append *)
ind_core_flow_stats_iter_eager(S, id, ref, r) ==
    LET state0 == TaskOf(S, id)
        fresh  == state0.reply = NoReply
        state  == IF fresh
                  THEN [state0 EXCEPT !.reply = <<NewFlowStatsReply(state0.req)>>]
                  ELSE state0
        T      == IF fresh THEN reply_new(S) ELSE S
        e      == EntryOf(S.ft, ref)
        full   == [state EXCEPT
                     !.reply[1].entries = Append(@, StatsEntry(state, e)),
                     !.reply[1].length = @ + StatsEntryLen]
    IN  IF fresh /\ ~r.reply
        THEN IF ref = 0
             THEN EndTask(of_object_delete(S, state0.req.id), id)
             ELSE S
        ELSE IF ref = 0
        THEN EndTask(of_object_delete(
                       msg_send(T, [state.reply[1] EXCEPT !.flags = 0], r.send),
                       state.req.id),
                     id)
        ELSE IF r.stats # "NONE" THEN SetTask(T, state)
        ELSE IF state.req.ver # e.effects.wire_version THEN SetTask(T, state)
        ELSE IF ~r.append THEN SetTask(T, state)
        ELSE IF full.reply[1].length > StatsReplyHeaderLen
        THEN SetTask(msg_send(T, full.reply[1], r.send),
                     [full EXCEPT !.reply = NoReply])
        ELSE SetTask(T, full)

(* ind_core_flow_stats_iter(cookie, entry); ref = 0 is the NULL entry *)
ind_core_flow_stats_iter(S, id, ref, r) ==
    LET state0 == TaskOf(S, id)
        fresh  == state0.reply = NoReply
        state  == IF fresh
                  THEN [state0 EXCEPT !.reply = <<NewFlowStatsReply(state0.req)>>]
                  ELSE state0
        T      == IF fresh THEN reply_new(S) ELSE S
        e      == EntryOf(S.ft, ref)
        full   == [state EXCEPT
                     !.reply[1].entries = Append(@, StatsEntry(state, e)),
                     !.reply[1].length = @ + StatsEntryLen]
    IN  IF fresh /\ ~r.reply
        THEN IF ref = 0
             THEN EndTask(of_object_delete(S, state0.req.id), id)
             ELSE S
        ELSE IF ref = 0
        THEN EndTask(of_object_delete(
                       msg_send(T, [state.reply[1] EXCEPT !.flags = 0], r.send),
                       state.req.id),
                     id)
        ELSE IF r.stats # "NONE" THEN SetTask(T, state)
        ELSE IF state.req.ver # e.effects.wire_version THEN SetTask(T, state)
        ELSE IF ~r.append THEN SetTask(T, state)
        ELSE IF full.reply[1].length > StatsReplyLimit
        THEN SetTask(msg_send(T, full.reply[1], r.send),
                     [full EXCEPT !.reply = NoReply])
        ELSE SetTask(T, full)

(* ind_core_flow_stats_request_handler(_obj, cxn_id) *)
ind_core_flow_stats_request_handler(S, obj, r) ==
    IF obj.bad_match
    THEN [S |-> of_object_delete(S, obj.id), rv |-> "UNKNOWN"]
    ELSE IF ~r.alloc
    THEN [S |-> of_object_delete(S, obj.id), rv |-> "RESOURCE"]
    ELSE IF r.spawn # "NONE"
    THEN [S |-> of_object_delete(S, obj.id), rv |-> r.spawn]
    ELSE [S |-> ft_spawn_iter_task(S, "flow_stats", obj, stats_setup_query(obj)),
          rv |-> "NONE"]

(* An aggregate-stats callback whose NULL call keeps the request *)
ind_core_aggregate_stats_iter_keep_req(S, id, ref, r) ==
    LET state == TaskOf(S, id)
        st    == FwdFlowStats(EntryOf(S.ft, ref).id)
    IN  IF ref # 0
        THEN IF r.stats # "NONE" THEN S
             ELSE SetTask(S, [state EXCEPT !.bytes = @ + st.bytes,
                                           !.packets = @ + st.packets,
                                           !.flows = @ + 1])
        ELSE EndTask(S, id)

(* An aggregate-stats callback that counts the flows but not their bytes *)
ind_core_aggregate_stats_iter_no_bytes(S, id, ref, r) ==
    LET state == TaskOf(S, id)
        st    == FwdFlowStats(EntryOf(S.ft, ref).id)
        reply == [what |-> "aggregate_stats_reply", ver |-> state.req.ver,
                  xid |-> state.req.xid, byte_count |-> state.bytes,
                  packet_count |-> state.packets, flow_count |-> state.flows,
                  ok |-> TRUE]
    IN  IF ref # 0
        THEN IF r.stats # "NONE" THEN S
             ELSE SetTask(S, [state EXCEPT !.packets = @ + st.packets,
                                           !.flows = @ + 1])
        ELSE EndTask(of_object_delete(
                       IF r.reply THEN msg_send(reply_new(S), reply, r.send)
                       ELSE S,
                       state.req.id),
                     id)

(* ind_core_aggregate_stats_iter(cookie, entry) *)
ind_core_aggregate_stats_iter(S, id, ref, r) ==
    LET state == TaskOf(S, id)
        st    == FwdFlowStats(EntryOf(S.ft, ref).id)
        reply == [what |-> "aggregate_stats_reply", ver |-> state.req.ver,
                  xid |-> state.req.xid, byte_count |-> state.bytes,
                  packet_count |-> state.packets, flow_count |-> state.flows,
                  ok |-> TRUE]
    IN  IF ref # 0
        THEN IF r.stats # "NONE" THEN S
             ELSE SetTask(S, [state EXCEPT !.bytes = @ + st.bytes,
                                           !.packets = @ + st.packets,
                                           !.flows = @ + 1])
        ELSE EndTask(of_object_delete(
                       IF r.reply THEN msg_send(reply_new(S), reply, r.send)
                       ELSE S,
                       state.req.id),
                     id)

(* ind_core_aggregate_stats_request_handler(_obj, cxn_id) *)
ind_core_aggregate_stats_request_handler(S, obj, r) ==
    IF obj.bad_match
    THEN [S |-> of_object_delete(S, obj.id), rv |-> "UNKNOWN"]
    ELSE IF ~r.alloc
    THEN [S |-> of_object_delete(S, obj.id), rv |-> "RESOURCE"]
    ELSE IF r.spawn # "NONE"
    THEN [S |-> of_object_delete(S, obj.id), rv |-> r.spawn]
    ELSE [S |-> ft_spawn_iter_task(S, "aggregate_stats", obj,
                                   stats_setup_query(obj)),
          rv |-> "NONE"]

----------------------------------------------------------------------------
(* Synchronous request handlers: each builds or obtains one reply, sends   *)
(* it and releases the request before it returns.  Only the header of a    *)
(* reply (type, version, xid) is kept.                                     *)

(* A request other than a flow-mod, with the fields its handler reads *)
ReqMsg(kind, ver) ==
    [BaseMsg EXCEPT !.kind = kind, !.ver = ver] @@ [port |-> 1, index |-> 1]

(* Collaborator responses of the synchronous handlers, on top of BaseResp: *)
(* r.reply is of_*_reply_new, r.fwd the FWD call, r.send the send.         *)
ReqResp ==
    BaseResp @@
    [port |-> "NONE",    \* indigo_port_* result
     echo |-> TRUE,      \* FWD wrote the request's xid into the reply it built
     map |-> TRUE,       \* of_ip_mask_map_get / _set succeeds
     dup |-> TRUE,       \* of_object_dup succeeds
     stale |-> FALSE,    \* a released object's memory has been overwritten
     fixup |-> FALSE]    \* the build defines OFDPA_FIXUP

(* of_<type>_reply_new(version): a fresh object, xid not yet set *)
NewReply(what, ver) == [what |-> what, ver |-> ver, xid |-> 0, ok |-> TRUE]

(* obj->version read after of_object_delete(obj) *)
VersionAfterDelete(obj, r) == IF r.stale THEN 0 ELSE obj.ver

(* indigo_fwd_table_stats_get(request, &reply): FWD builds the whole reply *)
indigo_fwd_table_stats_get(obj, r) ==
    [rv |-> r.fwd,
     reply |-> [NewReply("table_stats_reply", obj.ver) EXCEPT
                  !.xid = IF r.echo THEN obj.xid ELSE 0]]

(* ind_core_unhandled_message that releases the message and reports        *)
(* nothing                                                                 *)
ind_core_unhandled_message_silent(S, obj, r) ==
    [S |-> of_object_delete(S, obj.id), rv |-> "UNKNOWN"]

(* ind_core_unhandled_message(obj, cxn_id) *)
ind_core_unhandled_message(S, obj, r) ==
    [S |-> of_object_delete(
             send_error_msg(S, obj.ver, obj.xid, "BAD_REQUEST", "BAD_TYPE",
                            r.send),
             obj.id),
     rv |-> "UNKNOWN"]

(* ind_core_experimenter_stats_request_handler(_obj, cxn_id) *)
ind_core_experimenter_stats_request_handler(S, obj, r) ==
    [S |-> ind_core_unhandled_message(S, obj, r).S, rv |-> "NONE"]

(* ind_core_port_stats_request_handler(_obj, cxn_id) *)
ind_core_port_stats_request_handler(S, obj, r) ==
    LET reply == NewReply("port_stats_reply", obj.ver)
        xid   == 0
    IN  IF r.port = "NONE"
        THEN [S |-> of_object_delete(
                      msg_send(reply_new(S), [reply EXCEPT !.xid = obj.xid], r.send),
                      obj.id),
              rv |-> IF r.send THEN "NONE" ELSE "UNKNOWN"]
        ELSE [S |-> of_object_delete(
                      send_error_msg(S, obj.ver, xid, 0, 0, r.send), obj.id),
              rv |-> r.port]

(* ind_core_queue_get_config_request_handler(_obj, cxn_id) *)
ind_core_queue_get_config_request_handler(S, obj, r) ==
    LET reply == NewReply("queue_get_config_reply", obj.ver) @@ [port |-> 0]
    IN  IF r.port = "NONE"
        THEN [S |-> of_object_delete(
                      msg_send(reply_new(S), [reply EXCEPT !.xid = obj.xid,
                                                !.port = obj.port], r.send),
                      obj.id),
              rv |-> IF r.send THEN "NONE" ELSE "UNKNOWN"]
        ELSE [S |-> of_object_delete(
                      IF r.fixup
                      THEN send_error_msg(S, obj.ver, obj.xid,
                                          "QUEUE_OP_FAILED", "BAD_PORT", r.send)
                      ELSE send_error_msg(S, obj.ver, obj.xid, 0, 0, r.send),
                      obj.id),
              rv |-> r.port]

(* ind_core_queue_stats_request_handler(_obj, cxn_id) *)
ind_core_queue_stats_request_handler(S, obj, r) ==
    LET reply == NewReply("queue_stats_reply", obj.ver)
        code  == CASE r.port = "NOT_FOUND" -> "BAD_PORT"
                   [] r.port = "RANGE" -> "BAD_QUEUE"
                   [] OTHER -> "BAD_PORT"
    IN  IF r.port = "NONE"
        THEN [S |-> of_object_delete(
                      IF r.send
                      THEN msg_send(reply_new(S), [reply EXCEPT !.xid = obj.xid], TRUE)
                      ELSE reply_delete(
                             msg_send(reply_new(S), [reply EXCEPT !.xid = obj.xid], FALSE)),
                      obj.id),
              rv |-> IF r.send THEN "NONE" ELSE "UNKNOWN"]
        ELSE [S |-> of_object_delete(
                      IF r.fixup
                      THEN send_error_msg(S, obj.ver, obj.xid,
                                          "QUEUE_OP_FAILED", code, r.send)
                      ELSE send_error_msg(S, obj.ver, obj.xid, 0, 0, r.send),
                      obj.id),
              rv |-> r.port]

(* get_config_reply_setup(reply, req) *)
get_config_reply_setup(reply, req) == [reply EXCEPT !.xid = req.xid]

(* ind_core_get_config_request_handler(_obj, cxn_id) *)
ind_core_get_config_request_handler(S, obj, r) ==
    LET reply == NewReply("get_config_reply", obj.ver)
    IN  IF ~r.reply
        THEN [S |-> of_object_delete(S, obj.id), rv |-> "RESOURCE"]
        ELSE [S |-> of_object_delete(
                      IF r.send
                      THEN msg_send(reply_new(S), get_config_reply_setup(reply, obj), TRUE)
                      ELSE reply_delete(
                             msg_send(reply_new(S), get_config_reply_setup(reply, obj), FALSE)),
                      obj.id),
              rv |-> "NONE"]

(* ind_core_desc_stats_request_handler(_obj, cxn_id) *)
ind_core_desc_stats_request_handler(S, obj, r) ==
    LET reply == NewReply("desc_stats_reply", obj.ver)
    IN  IF ~r.reply
        THEN [S |-> of_object_delete(S, obj.id), rv |-> "NONE"]
        ELSE [S |-> of_object_delete(
                      msg_send(reply_new(S), [reply EXCEPT !.xid = obj.xid], r.send),
                      obj.id),
              rv |-> IF r.send THEN "NONE" ELSE "UNKNOWN"]

(* ind_core_table_stats_request_handler(_obj, cxn_id) *)
ind_core_table_stats_request_handler(S, obj, r) ==
    LET got == indigo_fwd_table_stats_get(obj, r)
    IN  IF got.rv # "NONE"
        THEN [S |-> of_object_delete(S, obj.id), rv |-> got.rv]
        ELSE [S |-> of_object_delete(msg_send(reply_new(S), got.reply, r.send), obj.id),
              rv |-> IF r.send THEN "NONE" ELSE "UNKNOWN"]

(* ind_core_port_desc_stats_request_handler(_obj, cxn_id) *)
ind_core_port_desc_stats_request_handler(S, obj, r) ==
    LET reply == NewReply("port_desc_stats_reply", obj.ver)
    IN  IF ~r.reply
        THEN [S |-> of_object_delete(S, obj.id),
              rv |-> IF r.fixup THEN "RESOURCE" ELSE "NONE"]
        ELSE [S |-> msg_send(reply_new(of_object_delete(S, obj.id)),
                             [reply EXCEPT !.xid = obj.xid], r.send),
              rv |-> IF r.send THEN "NONE" ELSE "UNKNOWN"]

(* ind_core_features_request_handler(_obj, cxn_id) *)
ind_core_features_request_handler(S, obj, r) ==
    LET reply == NewReply("features_reply", obj.ver)
    IN  IF ~r.reply
        THEN [S |-> of_object_delete(S, obj.id),
              rv |-> IF r.fixup THEN "RESOURCE" ELSE "NONE"]
        ELSE [S |-> msg_send(reply_new(of_object_delete(S, obj.id)),
                             [reply EXCEPT !.xid = obj.xid], r.send),
              rv |-> IF r.send THEN "NONE" ELSE "UNKNOWN"]

(* ind_core_experimenter_handler sending the error as soon as one of the   *)
(* two modules does not support the message                                *)
ind_core_experimenter_handler_either(S, obj, r) ==
    LET fwd_rv  == r.fwd
        port_rv == r.port
        S1 == IF fwd_rv = "NOT_SUPPORTED" \/ port_rv = "NOT_SUPPORTED"
              THEN send_error_msg(S, obj.ver, obj.xid, "BAD_REQUEST",
                                  "BAD_EXPERIMENTER", r.send)
              ELSE S
        rv == IF fwd_rv = "NOT_SUPPORTED" /\ port_rv = "NOT_SUPPORTED"
              THEN "NONE"
              ELSE IF fwd_rv # "NONE" /\ port_rv # "NONE"
              THEN fwd_rv
              ELSE "NONE"
    IN  IF ~r.dup
        THEN [S |-> of_object_delete(S, obj.id), rv |-> "RESOURCE"]
        ELSE [S |-> of_object_delete(S1, obj.id), rv |-> rv]

(* ind_core_experimenter_handler(_obj, cxn_id) *)
ind_core_experimenter_handler(S, obj, r) ==
    LET fwd_rv  == r.fwd
        port_rv == r.port
        S1 == IF fwd_rv = "NOT_SUPPORTED" /\ port_rv = "NOT_SUPPORTED"
              THEN send_error_msg(S, obj.ver, obj.xid, "BAD_REQUEST",
                                  "BAD_EXPERIMENTER", r.send)
              ELSE S
        rv == IF fwd_rv = "NOT_SUPPORTED" /\ port_rv = "NOT_SUPPORTED"
              THEN "NONE"
              ELSE IF fwd_rv # "NONE" /\ port_rv # "NONE"
              THEN fwd_rv
              ELSE "NONE"
    IN  IF ~r.dup
        THEN [S |-> of_object_delete(S, obj.id), rv |-> "RESOURCE"]
        ELSE [S |-> of_object_delete(S1, obj.id), rv |-> rv]

(* ind_core_bsn_get_ip_mask_request_handler without the return after the  *)
(* error: it goes on to send the reply                                     *)
ind_core_bsn_get_ip_mask_request_handler_no_return(S, obj, r) ==
    LET reply == NewReply("bsn_get_ip_mask_reply", obj.ver) @@ [index |-> 0]
        set   == [reply EXCEPT !.xid = obj.xid, !.index = obj.index]
        S1    == of_object_delete(reply_new(S), obj.id)
        S2    == IF r.map THEN S1
                 ELSE send_error_msg(S1, VersionAfterDelete(obj, r), obj.xid,
                                     0, 0, r.send)
    IN  IF ~r.reply
        THEN [S |-> of_object_delete(S, obj.id), rv |-> "NONE"]
        ELSE [S |-> msg_send(S2, set, r.send),
              rv |-> IF r.send THEN "NONE" ELSE "UNKNOWN"]

(* ind_core_bsn_get_ip_mask_request_handler(_obj, cxn_id) *)
ind_core_bsn_get_ip_mask_request_handler(S, obj, r) ==
    LET reply == NewReply("bsn_get_ip_mask_reply", obj.ver) @@ [index |-> 0]
        set   == [reply EXCEPT !.xid = obj.xid, !.index = obj.index]
        S1    == of_object_delete(reply_new(S), obj.id)
    IN  IF ~r.reply
        THEN [S |-> of_object_delete(S, obj.id), rv |-> "NONE"]
        ELSE IF ~r.map
        THEN [S |-> send_error_msg(S1, VersionAfterDelete(obj, r), obj.xid,
                                   0, 0, r.send),
              rv |-> "NONE"]
        ELSE [S |-> msg_send(S1, set, r.send),
              rv |-> IF r.send THEN "NONE" ELSE "UNKNOWN"]

(* ind_core_port_mod_handler(_obj, cxn_id); r.port is what                 *)
(* indigo_port_modify returns                                              *)
ind_core_port_mod_handler(S, obj, r) ==
    LET ver == obj.ver
        xid == obj.xid
    IN  [S |-> of_object_delete(
                 IF r.port # "NONE"
                 THEN send_error_msg(S, ver, xid, "PORT_MOD_FAILED",
                                     "BAD_PORT", r.send)
                 ELSE S,
                 obj.id),
         rv |-> r.port]

(* ind_core_bsn_set_ip_mask_handler(_obj, cxn_id); r.map is whether        *)
(* of_ip_mask_map_set accepts the index                                    *)
ind_core_bsn_set_ip_mask_handler(S, obj, r) ==
    LET xid == obj.xid
        S1  == of_object_delete(S, obj.id)
    IN  IF ~r.map
        THEN [S |-> send_error_msg(S1, VersionAfterDelete(obj, r), xid,
                                   0, 0, r.send),
              rv |-> "NONE"]
        ELSE [S |-> S1, rv |-> "NONE"]

(* ind_core_bsn_hybrid_get_request_handler(_obj, cxn_id) *)
ind_core_bsn_hybrid_get_request_handler(S, obj, r) ==
    LET reply == NewReply("bsn_hybrid_get_reply", obj.ver)
    IN  IF ~r.reply
        THEN [S |-> of_object_delete(S, obj.id), rv |-> "NONE"]
        ELSE [S |-> msg_send(reply_new(of_object_delete(S, obj.id)),
                             [reply EXCEPT !.xid = obj.xid], r.send),
              rv |-> IF r.send THEN "NONE" ELSE "UNKNOWN"]

----------------------------------------------------------------------------
(* Actions.  E is the environment: E.inputs, the inputs it offers (a       *)
(* message m with the collaborator responses r its handler will get),      *)
(* E.resps, the responses a task callback may get, and E.max, the number   *)
(* of messages it sends.                                                   *)

NoObj == Obj(BaseMsg, 0)

Commit(S, l) ==
    \E T \in {S} :
        /\ ft' = T.ft
        /\ status' = T.status
        /\ next_flow_id' = T.next_flow_id
        /\ next_xid' = T.next_xid
        /\ fwd_flows' = T.fwd_flows
        /\ tasks' = T.tasks
        /\ released' = T.released
        /\ last' = [op |-> l.op, obj |-> l.obj, rv |-> l.rv, ref |-> l.ref,
                    r |-> l.r, wire |-> T.wire, calls |-> T.calls,
                    replies |-> T.replies]
        /\ UNCHANGED now

Handled(op, obj, r, res) ==
    /\ \E out \in {res} :
         Commit(out.S, [op |-> op, obj |-> obj, rv |-> out.rv, ref |-> 0,
                        r |-> r])
    /\ nmsgs' = nmsgs + 1
    /\ UNCHANGED nullcalls

FlowAdd(E) ==
    /\ nmsgs < E.max
    /\ \E in \in E.inputs :
         /\ in.m.kind = "flow_add"
         /\ Handled("flow_add", Obj(in.m, nmsgs + 1), in.r,
                    ind_core_flow_add_handler(Machine, Obj(in.m, nmsgs + 1), in.r))

FlowModify(E) ==
    /\ nmsgs < E.max
    /\ \E in \in E.inputs :
         /\ in.m.kind = "flow_modify"
         /\ Handled("flow_modify", Obj(in.m, nmsgs + 1), in.r,
                    ind_core_flow_modify_handler(Machine, Obj(in.m, nmsgs + 1), in.r))

FlowModifyStrict(E) ==
    /\ nmsgs < E.max
    /\ \E in \in E.inputs :
         /\ in.m.kind = "flow_modify_strict"
         /\ Handled("flow_modify_strict", Obj(in.m, nmsgs + 1), in.r,
                    ind_core_flow_modify_strict_handler(Machine, Obj(in.m, nmsgs + 1), in.r))

FlowDelete(E) ==
    /\ nmsgs < E.max
    /\ \E in \in E.inputs :
         /\ in.m.kind = "flow_delete"
         /\ Handled("flow_delete", Obj(in.m, nmsgs + 1), in.r,
                    ind_core_flow_delete_handler(Machine, Obj(in.m, nmsgs + 1), in.r))

FlowDeleteStrict(E) ==
    /\ nmsgs < E.max
    /\ \E in \in E.inputs :
         /\ in.m.kind = "flow_delete_strict"
         /\ Handled("flow_delete_strict", Obj(in.m, nmsgs + 1), in.r,
                    ind_core_flow_delete_strict_handler(Machine, Obj(in.m, nmsgs + 1), in.r))

FlowStatsRequest(E) ==
    /\ nmsgs < E.max
    /\ \E in \in E.inputs :
         /\ in.m.kind = "flow_stats_request"
         /\ Handled("flow_stats_request", Obj(in.m, nmsgs + 1), in.r,
                    ind_core_flow_stats_request_handler(Machine, Obj(in.m, nmsgs + 1), in.r))

AggregateStatsRequest(E) ==
    /\ nmsgs < E.max
    /\ \E in \in E.inputs :
         /\ in.m.kind = "aggregate_stats_request"
         /\ Handled("aggregate_stats_request", Obj(in.m, nmsgs + 1), in.r,
                    ind_core_aggregate_stats_request_handler(Machine, Obj(in.m, nmsgs + 1), in.r))

(* One scheduler slice of an iteration task: the callback gets the next    *)
(* matching entry, or NULL once when nothing is left.                      *)
IterCallback(S, k, ref, r) ==
    CASE k.kind = "modify" -> modify_iter_cb(S, k.id, ref, r)
      [] k.kind = "delete" -> delete_iter_cb(S, k.id, ref, r)
      [] k.kind = "flow_stats" -> ind_core_flow_stats_iter(S, k.id, ref, r)
      [] OTHER -> ind_core_aggregate_stats_iter(S, k.id, ref, r)

Slice(k, r) ==
    /\ \E i \in {NextIndex(ft, k)} :
         IF i # 0
         THEN /\ \E S \in {SetTask(Machine, Advance(ft, k, i))} :
                   Commit(IterCallback(S, k, ft[i].ref, r),
                          [op |-> k.kind, obj |-> k.req, rv |-> "NONE",
                           ref |-> ft[i].ref, r |-> r])
              /\ UNCHANGED nullcalls
         ELSE /\ \E S \in {Machine} :
                   Commit(IterCallback(S, k, 0, r),
                          [op |-> k.kind, obj |-> k.req, rv |-> "NONE",
                           ref |-> 0, r |-> r])
              /\ nullcalls' = [nullcalls EXCEPT ![k.id] = @ + 1]
    /\ UNCHANGED nmsgs

ModifyIter(E) ==
    \E k \in tasks, r \in E.resps : k.kind = "modify" /\ Slice(k, r)

DeleteIter(E) ==
    \E k \in tasks, r \in E.resps : k.kind = "delete" /\ Slice(k, r)

FlowStatsIter(E) ==
    \E k \in tasks, r \in E.resps : k.kind = "flow_stats" /\ Slice(k, r)

AggregateStatsIter(E) ==
    \E k \in tasks, r \in E.resps : k.kind = "aggregate_stats" /\ Slice(k, r)

Tick ==
    /\ now < MaxTime
    /\ now' = now + 1
    /\ UNCHANGED <<ft, status, next_flow_id, next_xid, fwd_flows, tasks, nmsgs,
                   released, nullcalls, last>>

(* One action per synchronous request handler *)
PortStatsRequest(E) ==
    /\ nmsgs < E.max
    /\ \E in \in E.inputs :
         /\ in.m.kind = "port_stats_request"
         /\ Handled("port_stats_request", Obj(in.m, nmsgs + 1), in.r,
                    ind_core_port_stats_request_handler(Machine, Obj(in.m, nmsgs + 1), in.r))

QueueGetConfigRequest(E) ==
    /\ nmsgs < E.max
    /\ \E in \in E.inputs :
         /\ in.m.kind = "queue_get_config_request"
         /\ Handled("queue_get_config_request", Obj(in.m, nmsgs + 1), in.r,
                    ind_core_queue_get_config_request_handler(Machine, Obj(in.m, nmsgs + 1), in.r))

QueueStatsRequest(E) ==
    /\ nmsgs < E.max
    /\ \E in \in E.inputs :
         /\ in.m.kind = "queue_stats_request"
         /\ Handled("queue_stats_request", Obj(in.m, nmsgs + 1), in.r,
                    ind_core_queue_stats_request_handler(Machine, Obj(in.m, nmsgs + 1), in.r))

GetConfigRequest(E) ==
    /\ nmsgs < E.max
    /\ \E in \in E.inputs :
         /\ in.m.kind = "get_config_request"
         /\ Handled("get_config_request", Obj(in.m, nmsgs + 1), in.r,
                    ind_core_get_config_request_handler(Machine, Obj(in.m, nmsgs + 1), in.r))

DescStatsRequest(E) ==
    /\ nmsgs < E.max
    /\ \E in \in E.inputs :
         /\ in.m.kind = "desc_stats_request"
         /\ Handled("desc_stats_request", Obj(in.m, nmsgs + 1), in.r,
                    ind_core_desc_stats_request_handler(Machine, Obj(in.m, nmsgs + 1), in.r))

TableStatsRequest(E) ==
    /\ nmsgs < E.max
    /\ \E in \in E.inputs :
         /\ in.m.kind = "table_stats_request"
         /\ Handled("table_stats_request", Obj(in.m, nmsgs + 1), in.r,
                    ind_core_table_stats_request_handler(Machine, Obj(in.m, nmsgs + 1), in.r))

PortDescStatsRequest(E) ==
    /\ nmsgs < E.max
    /\ \E in \in E.inputs :
         /\ in.m.kind = "port_desc_stats_request"
         /\ Handled("port_desc_stats_request", Obj(in.m, nmsgs + 1), in.r,
                    ind_core_port_desc_stats_request_handler(Machine, Obj(in.m, nmsgs + 1), in.r))

FeaturesRequest(E) ==
    /\ nmsgs < E.max
    /\ \E in \in E.inputs :
         /\ in.m.kind = "features_request"
         /\ Handled("features_request", Obj(in.m, nmsgs + 1), in.r,
                    ind_core_features_request_handler(Machine, Obj(in.m, nmsgs + 1), in.r))

Experimenter(E) ==
    /\ nmsgs < E.max
    /\ \E in \in E.inputs :
         /\ in.m.kind = "experimenter"
         /\ Handled("experimenter", Obj(in.m, nmsgs + 1), in.r,
                    ind_core_experimenter_handler(Machine, Obj(in.m, nmsgs + 1), in.r))

BsnGetIpMaskRequest(E) ==
    /\ nmsgs < E.max
    /\ \E in \in E.inputs :
         /\ in.m.kind = "bsn_get_ip_mask_request"
         /\ Handled("bsn_get_ip_mask_request", Obj(in.m, nmsgs + 1), in.r,
                    ind_core_bsn_get_ip_mask_request_handler(Machine, Obj(in.m, nmsgs + 1), in.r))

UnhandledMessage(E) ==
    /\ nmsgs < E.max
    /\ \E in \in E.inputs :
         /\ in.m.kind = "unhandled"
         /\ Handled("unhandled", Obj(in.m, nmsgs + 1), in.r,
                    ind_core_unhandled_message(Machine, Obj(in.m, nmsgs + 1), in.r))

ExperimenterStatsRequest(E) ==
    /\ nmsgs < E.max
    /\ \E in \in E.inputs :
         /\ in.m.kind = "experimenter_stats_request"
         /\ Handled("experimenter_stats_request", Obj(in.m, nmsgs + 1), in.r,
                    ind_core_experimenter_stats_request_handler(Machine, Obj(in.m, nmsgs + 1), in.r))

PortMod(E) ==
    /\ nmsgs < E.max
    /\ \E in \in E.inputs :
         /\ in.m.kind = "port_mod"
         /\ Handled("port_mod", Obj(in.m, nmsgs + 1), in.r,
                    ind_core_port_mod_handler(Machine, Obj(in.m, nmsgs + 1), in.r))

BsnSetIpMask(E) ==
    /\ nmsgs < E.max
    /\ \E in \in E.inputs :
         /\ in.m.kind = "bsn_set_ip_mask"
         /\ Handled("bsn_set_ip_mask", Obj(in.m, nmsgs + 1), in.r,
                    ind_core_bsn_set_ip_mask_handler(Machine, Obj(in.m, nmsgs + 1), in.r))

BsnHybridGetRequest(E) ==
    /\ nmsgs < E.max
    /\ \E in \in E.inputs :
         /\ in.m.kind = "bsn_hybrid_get_request"
         /\ Handled("bsn_hybrid_get_request", Obj(in.m, nmsgs + 1), in.r,
                    ind_core_bsn_hybrid_get_request_handler(Machine, Obj(in.m, nmsgs + 1), in.r))

(* A task run from where it stands to its terminal callback with nothing  *)
(* else scheduled in between.                                             *)
RECURSIVE RunTask(_, _, _)
RunTask(S, id, r) ==
    LET k == TaskOf(S, id)
        i == NextIndex(S.ft, k)
    IN  IF i = 0 THEN IterCallback(S, k, 0, r)
        ELSE RunTask(IterCallback(SetTask(S, Advance(S.ft, k, i)), k,
                                  S.ft[i].ref, r),
                     id, r)

(* A DELETE handled and its task run to completion *)
DeleteToCompletion(S, obj, r) ==
    LET res == ind_core_flow_delete_handler(S, obj, r)
    IN  IF \E k \in res.S.tasks : k.id = obj.id
        THEN RunTask(res.S, obj.id, r)
        ELSE res.S

----------------------------------------------------------------------------
(* Initial state: after construction of the state manager *)

InitOf(E) ==
    /\ ft = <<>>
    /\ status = [current_count |-> 0, adds |-> 0, deletes |-> 0,
                 forwarding_add_errors |-> 0]
    /\ next_flow_id = FlowIdStart
    /\ next_xid = XidStart
    /\ fwd_flows = {}
    /\ tasks = {}
    /\ nmsgs = 0
    /\ released = [i \in 1..E.max |-> 0]
    /\ nullcalls = [i \in 1..E.max |-> 0]
    /\ now = 0
    /\ last = [op |-> "init", obj |-> NoObj, rv |-> "NONE", ref |-> 0,
               r |-> BaseResp, wire |-> <<>>, calls |-> <<>>,
               replies |-> <<>>]

----------------------------------------------------------------------------
(* The flow-mod engine at one wire version: the five flow-mods with their  *)
(* failure paths (state allocation, task spawn, query setup, ft_add, FWD). *)

Msg(kind, match, priority, flags, eff) ==
    [BaseMsg EXCEPT !.kind = kind, !.match = match, !.priority = priority,
                    !.flags = flags, !.eff = eff]

In(m, r) == [m |-> m, r |-> r]

ModInputs ==
         {In(Msg("flow_add", mt, 1, f, 1), BaseResp)
            : mt \in {M1, MW}, f \in {{}, {"CHECK_OVERLAP"}}}
    \cup {In(Msg("flow_add", MW, 2, {}, 1), BaseResp)}
    \cup {In(Msg("flow_add", MW, 1, {}, 1), r)
            : r \in {[BaseResp EXCEPT !.ft_add = "RESOURCE"],
                     [BaseResp EXCEPT !.fwd = "RESOURCE"]}}
    \cup {In([Msg("flow_add", MW, 1, {"CHECK_OVERLAP"}, 1)
                EXCEPT !.bad_match = TRUE], BaseResp)}
    \cup {In(Msg("flow_modify", MW, 1, f, 2), BaseResp)
            : f \in {{}, {"CHECK_OVERLAP"}}}
    \cup {In(Msg("flow_modify", M1, 1, {}, 2), BaseResp)}
    \cup {In(Msg("flow_modify", MW, 1, {}, 2), r)
            : r \in {[BaseResp EXCEPT !.alloc = FALSE],
                     [BaseResp EXCEPT !.spawn = "RESOURCE"]}}
    \cup {In([Msg("flow_modify", MW, 1, {}, 2) EXCEPT !.bad_match = TRUE],
             BaseResp)}
    \cup {In(Msg("flow_modify_strict", mt, 1, {}, 2), BaseResp)
            : mt \in {M1, MW}}
    \cup {In(Msg("flow_modify_strict", MW, 1, {}, 2),
             [BaseResp EXCEPT !.fwd = "NOT_SUPPORTED"])}
    \cup {In([Msg("flow_modify_strict", MW, 1, {}, 2)
                EXCEPT !.bad_match = TRUE], BaseResp)}
    \cup {In(Msg("flow_delete", MW, 1, {}, 1), BaseResp)}
    \cup {In(Msg("flow_delete", MW, 1, {}, 1), r)
            : r \in {[BaseResp EXCEPT !.alloc = FALSE],
                     [BaseResp EXCEPT !.spawn = "RESOURCE"]}}
    \cup {In(Msg("flow_delete_strict", mt, 1, {}, 1), BaseResp)
            : mt \in {M1, MW}}

ModEnv ==
    [inputs |-> ModInputs,
     resps |-> {BaseResp, [BaseResp EXCEPT !.fwd = "RESOURCE"]},
     max |-> MaxMsgs]

Init == InitOf(ModEnv)

Next ==
    \/ FlowAdd(ModEnv)
    \/ FlowModify(ModEnv)
    \/ FlowModifyStrict(ModEnv)
    \/ FlowDelete(ModEnv)
    \/ FlowDeleteStrict(ModEnv)
    \/ ModifyIter(ModEnv)
    \/ DeleteIter(ModEnv)

Spec == Init /\ [][Next]_vars

----------------------------------------------------------------------------
(* Iteration tasks under interleaving, at two wire versions: flow-mods and *)
(* stats requests arrive between the slices of running tasks.              *)

MaxIterMsgs == 4

VMsg(kind, ver, match, eff) ==
    [BaseMsg EXCEPT !.kind = kind, !.ver = ver, !.match = match, !.eff = eff,
                    !.table_id = IF kind \in StatsKinds THEN TABLE_ID_ANY
                                 ELSE 0]

IterInputs ==
         {In(VMsg("flow_add", 1, mt, 1), [BaseResp EXCEPT !.late = l])
            : mt \in {M1, MW}, l \in BOOLEAN}
    \cup {In(VMsg("flow_modify", v, MW, 2), BaseResp) : v \in {1, 4}}
    \cup {In(VMsg("flow_delete", 1, MW, 1), BaseResp)}
    \cup {In(VMsg("flow_delete_strict", 1, MW, 1), BaseResp)}
    \cup {In(VMsg("flow_stats_request", 1, MW, 1), BaseResp)}

IterEnv ==
    [inputs |-> IterInputs, resps |-> {BaseResp}, max |-> MaxIterMsgs]

InitIter == InitOf(IterEnv)

NextIter ==
    \/ FlowAdd(IterEnv)
    \/ FlowModify(IterEnv)
    \/ FlowDelete(IterEnv)
    \/ FlowDeleteStrict(IterEnv)
    \/ FlowStatsRequest(IterEnv)
    \/ ModifyIter(IterEnv)
    \/ DeleteIter(IterEnv)
    \/ FlowStatsIter(IterEnv)

SpecIter == InitIter /\ [][NextIter]_vars

----------------------------------------------------------------------------
(* The stats engine: flow-stats and aggregate-stats requests at two wire   *)
(* versions over entries whose effects were set at either version, with    *)
(* the failures the callbacks handle.                                      *)

StatsInputs ==
         {In(VMsg("flow_add", v, mt, 1), BaseResp)
            : v \in {1, 4}, mt \in {M1, MW}}
    \cup {In(VMsg("flow_modify", v, MW, 2), BaseResp) : v \in {1, 4}}
    \cup {In(VMsg("flow_stats_request", v, MW, 1), BaseResp) : v \in {1, 4}}
    \cup {In(VMsg("aggregate_stats_request", 1, MW, 1), BaseResp)}

StatsEnv ==
    [inputs |-> StatsInputs,
     resps |-> {BaseResp,
                [BaseResp EXCEPT !.stats = "UNKNOWN"],
                [BaseResp EXCEPT !.reply = FALSE],
                [BaseResp EXCEPT !.append = FALSE],
                [BaseResp EXCEPT !.send = FALSE]},
     max |-> MaxMsgs]

InitStats == InitOf(StatsEnv)

NextStats ==
    \/ FlowAdd(StatsEnv)
    \/ FlowModify(StatsEnv)
    \/ FlowStatsRequest(StatsEnv)
    \/ AggregateStatsRequest(StatsEnv)
    \/ ModifyIter(StatsEnv)
    \/ FlowStatsIter(StatsEnv)
    \/ AggregateStatsIter(StatsEnv)

SpecStats == InitStats /\ [][NextStats]_vars

----------------------------------------------------------------------------
(* The scheduler: one task of each kind among ADDs and a DELETE-STRICT,    *)
(* and every ready task is run again and again until it has finished.      *)

SchedInputs ==
         {In(Msg("flow_add", mt, 1, {}, 1), [BaseResp EXCEPT !.late = l])
            : mt \in {M1, MW}, l \in BOOLEAN}
    \cup {In(Msg("flow_modify", MW, 1, {}, 2), BaseResp)}
    \cup {In(Msg("flow_delete", MW, 1, {}, 1), BaseResp)}
    \cup {In(Msg("flow_delete_strict", MW, 1, {}, 1), BaseResp)}
    \cup {In(VMsg("flow_stats_request", 1, MW, 1), BaseResp)}
    \cup {In(VMsg("aggregate_stats_request", 1, MW, 1), BaseResp)}

SchedEnv == [inputs |-> SchedInputs, resps |-> {BaseResp}, max |-> MaxMsgs]

InitSched == InitOf(SchedEnv)

NextSched ==
    \/ FlowAdd(SchedEnv)
    \/ FlowModify(SchedEnv)
    \/ FlowDelete(SchedEnv)
    \/ FlowDeleteStrict(SchedEnv)
    \/ FlowStatsRequest(SchedEnv)
    \/ AggregateStatsRequest(SchedEnv)
    \/ ModifyIter(SchedEnv)
    \/ DeleteIter(SchedEnv)
    \/ FlowStatsIter(SchedEnv)
    \/ AggregateStatsIter(SchedEnv)

(* A slice of any ready task *)
RunTasks(E) ==
    \/ ModifyIter(E)
    \/ DeleteIter(E)
    \/ FlowStatsIter(E)
    \/ AggregateStatsIter(E)

SpecSched ==
    /\ InitSched
    /\ [][NextSched]_vars
    /\ WF_vars(RunTasks(SchedEnv))

----------------------------------------------------------------------------
(* ADD with CHECK_OVERLAP over two tables at two wire versions.            *)

OverlapInputs ==
    {In([BaseMsg EXCEPT !.ver = v, !.table_id = t, !.match = mt,
                        !.priority = p, !.flags = f],
        [BaseResp EXCEPT !.fwd_table = t])
       : v \in {1, 4}, t \in {0, 1}, mt \in {M1, MW}, p \in {1, 2},
         f \in {{}, {"CHECK_OVERLAP"}}}

OverlapEnv == [inputs |-> OverlapInputs, resps |-> {BaseResp}, max |-> MaxMsgs]

InitOverlap == InitOf(OverlapEnv)

NextOverlap == FlowAdd(OverlapEnv)

SpecOverlap == InitOverlap /\ [][NextOverlap]_vars

----------------------------------------------------------------------------
(* The flow-id counter at the end of its 32-bit range.  The initial state  *)
(* is the one the program is in after 2^32 - 2 ADDs of which the first     *)
(* (flow id 1, installed by a message before this run) is still installed  *)
(* and every other one was deleted again: next_flow_id is 0xFFFFFFFF.      *)
(* The status counters are kept modulo 2^32 like the other 32-bit values.  *)

OldEntry ==
    [NewEntry(FlowIdStart, Obj(Msg("flow_add", M2, 2, {}, 1), 0), 0)
       EXCEPT !.ref = 99]

WrapInputs ==
    {In(Msg("flow_add", mt, p, {}, 1), BaseResp)
       : mt \in {M1, MW}, p \in {1, 2}}
    \cup {In(Msg("flow_delete_strict", mt, p, {}, 1), BaseResp)
       : mt \in {M1, M2, MW}, p \in {1, 2}}

WrapEnv == [inputs |-> WrapInputs, resps |-> {BaseResp}, max |-> MaxMsgs]

InitWrap ==
    /\ ft = <<OldEntry>>
    /\ status = [current_count |-> 1, adds |-> UINT32_MAX - 1,
                 deletes |-> UINT32_MAX - 2, forwarding_add_errors |-> 0]
    /\ next_flow_id = UINT32_MAX
    /\ next_xid = XidStart
    /\ fwd_flows = {FlowIdStart}
    /\ tasks = {}
    /\ nmsgs = 0
    /\ released = [i \in 1..WrapEnv.max |-> 0]
    /\ nullcalls = [i \in 1..WrapEnv.max |-> 0]
    /\ now = 0
    /\ last = [op |-> "init", obj |-> NoObj, rv |-> "NONE", ref |-> 0,
               r |-> BaseResp, wire |-> <<>>, calls |-> <<>>,
               replies |-> <<>>]

NextWrap ==
    \/ FlowAdd(WrapEnv)
    \/ FlowDeleteStrict(WrapEnv)

SpecWrap == InitWrap /\ [][NextWrap]_vars

----------------------------------------------------------------------------
(* The request/reply specification: every synchronous request handler     *)
(* under every collaborator outcome it reads, next to a small flow table   *)
(* with a non-strict MODIFY and the two stats tasks.                       *)

MaxReqMsgs == 3

AllocKinds == {"get_config_request", "desc_stats_request",
               "port_desc_stats_request", "features_request",
               "bsn_hybrid_get_request"}

PortKinds == {"port_stats_request", "queue_get_config_request",
              "queue_stats_request"}

SyncReplyKinds ==
    AllocKinds \cup PortKinds
      \cup {"table_stats_request", "bsn_get_ip_mask_request"}

ReqInputs ==
    {In(ReqMsg(k, v), [ReqResp EXCEPT !.reply = a, !.send = s, !.fixup = x])
       : k \in AllocKinds, v \in {1, 4}, a \in BOOLEAN, s \in BOOLEAN,
         x \in BOOLEAN}
    \cup
    {In(ReqMsg(k, 1), [ReqResp EXCEPT !.port = p, !.send = s, !.fixup = x])
       : k \in PortKinds, p \in {"NONE", "NOT_FOUND", "RANGE"},
         s \in BOOLEAN, x \in BOOLEAN}
    \cup
    {In(ReqMsg("table_stats_request", 1),
        [ReqResp EXCEPT !.fwd = f, !.echo = e, !.send = s])
       : f \in {"NONE", "RESOURCE"}, e \in BOOLEAN, s \in BOOLEAN}
    \cup
    {In(ReqMsg("bsn_get_ip_mask_request", 1),
        [ReqResp EXCEPT !.reply = a, !.map = mp, !.stale = st, !.send = s])
       : a \in BOOLEAN, mp \in BOOLEAN, st \in BOOLEAN, s \in BOOLEAN}
    \cup
    {In(ReqMsg("experimenter", 1),
        [ReqResp EXCEPT !.dup = d, !.fwd = f, !.port = p])
       : d \in BOOLEAN, f \in {"NONE", "NOT_SUPPORTED", "RESOURCE"},
         p \in {"NONE", "NOT_SUPPORTED", "RANGE"}}
    \cup
    {In(ReqMsg(k, v), [ReqResp EXCEPT !.send = s])
       : k \in {"unhandled", "experimenter_stats_request"}, v \in {1, 4},
         s \in BOOLEAN}
    \cup
    {In(ReqMsg("port_mod", v), [ReqResp EXCEPT !.port = p, !.send = s])
       : v \in {1, 4}, p \in {"NONE", "NOT_FOUND"}, s \in BOOLEAN}
    \cup
    {In(ReqMsg("bsn_set_ip_mask", 1),
        [ReqResp EXCEPT !.map = mp, !.stale = st, !.send = s])
       : mp \in BOOLEAN, st \in BOOLEAN, s \in BOOLEAN}
    \cup
    {In(Msg("flow_add", mt, 1, {}, 1), BaseResp) : mt \in {M1, M2}}
    \cup
    {In(Msg(k, MW, 1, {}, 2), BaseResp)
       : k \in {"flow_modify", "flow_stats_request",
                "aggregate_stats_request"}}

ReqEnv ==
    [inputs |-> ReqInputs,
     resps |-> {BaseResp, [BaseResp EXCEPT !.fwd = "RESOURCE"],
                [BaseResp EXCEPT !.send = FALSE],
                [BaseResp EXCEPT !.reply = FALSE]},
     max |-> MaxReqMsgs]

InitReq == InitOf(ReqEnv)

NextReq ==
    \/ PortStatsRequest(ReqEnv)
    \/ QueueGetConfigRequest(ReqEnv)
    \/ QueueStatsRequest(ReqEnv)
    \/ GetConfigRequest(ReqEnv)
    \/ DescStatsRequest(ReqEnv)
    \/ TableStatsRequest(ReqEnv)
    \/ PortDescStatsRequest(ReqEnv)
    \/ FeaturesRequest(ReqEnv)
    \/ Experimenter(ReqEnv)
    \/ BsnGetIpMaskRequest(ReqEnv)
    \/ BsnHybridGetRequest(ReqEnv)
    \/ PortMod(ReqEnv)
    \/ BsnSetIpMask(ReqEnv)
    \/ UnhandledMessage(ReqEnv)
    \/ ExperimenterStatsRequest(ReqEnv)
    \/ FlowAdd(ReqEnv)
    \/ FlowModify(ReqEnv)
    \/ FlowStatsRequest(ReqEnv)
    \/ AggregateStatsRequest(ReqEnv)
    \/ ModifyIter(ReqEnv)
    \/ FlowStatsIter(ReqEnv)
    \/ AggregateStatsIter(ReqEnv)

SpecReq == InitReq /\ [][NextReq]_vars

----------------------------------------------------------------------------
(* Message ownership                                                       *)

(* C1: every handler, on every exit path, releases its inbound message     *)
(* exactly once: a message whose handler has returned is released once,    *)
(* unless a running iteration task owns it, and then it is not released    *)
(* yet.                                                                    *)
C1_ReleasedExactlyOnce ==
    \A i \in 1..nmsgs :
        released[i] = IF \E k \in tasks : k.id = i THEN 0 ELSE 1

----------------------------------------------------------------------------
(* MODIFY with nothing to modify                                           *)

(* The step is a MODIFY-STRICT handler whose strict query matches nothing, *)
(* or the terminal callback of a MODIFY task that was given no entry.      *)
ModifyFoundNothing ==
    \/ /\ nmsgs' = nmsgs + 1
       /\ last'.op = "flow_modify_strict"
       /\ flow_mod_setup_query(last'.obj, "STRICT", TRUE).rv = "NONE"
       /\ ft_strict_match(ft, flow_mod_setup_query(last'.obj, "STRICT",
                                                   TRUE).query) = 0
    \/ /\ nmsgs' = nmsgs
       /\ last'.op = "modify"
       /\ last'.ref = 0
       /\ \E k \in tasks : k.id = last'.obj.id /\ k.num_matched = 0

(* The step left everything as ADD of the same request would have *)
SameAsAdd ==
    \E res \in {ind_core_flow_add_handler(Machine, last'.obj, last'.r).S} :
        /\ ft' = res.ft
        /\ status' = res.status
        /\ fwd_flows' = res.fwd_flows
        /\ next_flow_id' = res.next_flow_id
        /\ next_xid' = res.next_xid
        /\ released' = res.released
        /\ last'.calls = res.calls
        /\ last'.wire = res.wire

(* C2: a MODIFY (at its terminal callback) or MODIFY-STRICT whose query    *)
(* matched no entry leaves the flow table, the FWD calls, the status       *)
(* counters and the wire exactly as ADD of the same request would.         *)
C2_ModifyNoMatchIsAdd == [][ModifyFoundNothing => SameAsAdd]_vars

(* A MODIFY task ended without a match and its request's entry is installed *)
C2_Witness ==
    /\ last.op = "modify"
    /\ last.ref = 0
    /\ last.obj.id \in Refs(ft)
    /\ <<"flow_create", EntryOf(ft, last.obj.id).id>> \in
           {last.calls[i] : i \in 1..Len(last.calls)}

----------------------------------------------------------------------------
(* ADD with CHECK_OVERLAP                                                  *)

(* Entry e has the request's priority and a match that intersects its match *)
Overlaps(e, obj) == e.priority = obj.priority /\ e.match \cap obj.match # {}

(* The step is an ADD with CHECK_OVERLAP *)
OverlapCheckedAdd ==
    /\ nmsgs' = nmsgs + 1
    /\ last'.op = "flow_add"
    /\ "CHECK_OVERLAP" \in last'.obj.flags

(* Nothing installed or removed, one OVERLAP error, no flow_create *)
OverlapRejected ==
    /\ ft' = ft
    /\ last'.wire = <<[what |-> "error", ver |-> last'.obj.ver,
                       xid |-> last'.obj.xid, etype |-> "FLOW_MOD_FAILED",
                       code |-> "OVERLAP", ok |-> last'.r.send]>>
    /\ \A i \in 1..Len(last'.calls) : last'.calls[i][1] # "flow_create"

(* C3 as stated: an ADD with CHECK_OVERLAP is rejected when any entry in   *)
(* the table has the same priority and an intersecting match.              *)
C3_OverlapAnyTable ==
    [][(OverlapCheckedAdd /\ \E i \in 1..Len(ft) : Overlaps(ft[i], last'.obj))
         => OverlapRejected]_vars

(* C3: an ADD with CHECK_OVERLAP is rejected (no entry installed or        *)
(* removed, exactly one FLOW_MOD_FAILED/OVERLAP error with the request's   *)
(* xid, no FWD flow_create) when an entry with the same priority and an    *)
(* intersecting match is in the table the request names; a 1.0 request     *)
(* names every table.                                                      *)
C3_OverlapSameTable ==
    [][(OverlapCheckedAdd
         /\ \E i \in 1..Len(ft) :
              /\ Overlaps(ft[i], last'.obj)
              /\ last'.obj.ver > OF_VERSION_1_0
                   => ft[i].table_id = last'.obj.table_id)
         => OverlapRejected]_vars

(* An ADD with CHECK_OVERLAP at 1.3 was rejected over an entry of its table *)
C3_Witness ==
    /\ last.op = "flow_add"
    /\ "CHECK_OVERLAP" \in last.obj.flags
    /\ last.obj.ver = OF_VERSION_1_3
    /\ \E i \in 1..Len(ft) :
         /\ Overlaps(ft[i], last.obj)
         /\ ft[i].match # last.obj.match
         /\ ft[i].table_id = last.obj.table_id
    /\ Len(last.wire) = 1
    /\ last.wire[1].code = "OVERLAP"

----------------------------------------------------------------------------
(* Flow ids and the entry count                                            *)

(* C4: any two entries in the flow table at the same time have different   *)
(* flow ids, also after the id counter has wrapped.                        *)
C4_UniqueFlowIds ==
    \A i, j \in 1..Len(ft) : i # j => ft[i].id # ft[j].id

(* C5: between handlers and callbacks the current_count status counter     *)
(* equals the number of entries linked in the flow table.                  *)
C5_CountIsLinked == status.current_count = Len(ft)

(* An ADD that FWD refused was unlinked again while another entry stays *)
C5_Witness ==
    /\ last.op = "flow_add"
    /\ last.r.fwd # "NONE"
    /\ <<"flow_create", 2>> \in {last.calls[i] : i \in 1..Len(last.calls)}
    /\ Len(ft) = 1
    /\ status.adds = 2
    /\ status.deletes = 1

----------------------------------------------------------------------------
(* Iteration tasks among flow-mods                                         *)

SeqToSet(q) == {q[i] : i \in 1..Len(q)}

TaskIds(T) == {k.id : k \in T}

(* Task k makes its terminal callback in this step *)
Ends(k) == nullcalls'[k.id] = nullcalls[k.id] + 1

(* A non-strict MODIFY or DELETE was applied to some of the entries its    *)
(* query matches and will still be applied to others.                      *)
PartlyApplied(k) ==
    /\ k.kind \in {"modify", "delete"}
    /\ k.seen # <<>>
    /\ NextIndex(ft, k) # 0

(* C6 as stated: when a handler starts, no earlier flow-mod is applied to  *)
(* some but not all of the entries its query matches.                      *)
C6_NoPartlyAppliedFlowMod ==
    [][nmsgs' = nmsgs + 1 => \A k \in tasks : ~PartlyApplied(k)]_vars

(* C6: ADD, MODIFY-STRICT and DELETE-STRICT are applied completely inside  *)
(* their handler (they leave no task behind), and when the task of a       *)
(* non-strict MODIFY or DELETE makes its terminal callback, every entry    *)
(* its query matched at spawn that is still in the table and still matches *)
(* was delivered to its callback; for DELETE no such entry is left.  While *)
(* the task runs, later handlers may start with the flow-mod partly        *)
(* applied.                                                                *)
C6_CompletedFlowModCoversMatches ==
    [][/\ (nmsgs' = nmsgs + 1
            /\ last'.op \in {"flow_add", "flow_modify_strict",
                             "flow_delete_strict"})
            => TaskIds(tasks') = TaskIds(tasks)
       /\ \A k \in tasks :
            (k.kind \in {"modify", "delete"} /\ Ends(k)) =>
               \A i \in 1..Len(ft) :
                  (ft[i].ref \in k.snap /\ ft_entry_meta_match(k.query, ft[i]))
                     => (k.kind = "modify" /\ ft[i].ref \in SeqToSet(k.seen))
      ]_vars

(* A MODIFY task ended after replacing the effects of both entries of the *)
(* table, and a later message was handled between its spawn and its end.  *)
C6_Witness ==
    /\ last.op = "modify"
    /\ last.ref = 0
    /\ last.obj.id < nmsgs
    /\ Len(ft) = 2
    /\ \A i \in 1..Len(ft) :
         /\ ft[i].ref < last.obj.id
         /\ ft[i].effects = MsgEffects(last.obj)

(* C7: an entry removed from the flow table after a task was spawned and   *)
(* before the task reached it is never given to the task's callback: no    *)
(* running task can still deliver an entry that is not in the table, and   *)
(* every entry a callback is given is in the table at the call.            *)
C7_DeliveredEntriesAreLinked ==
    /\ [](\A k \in tasks : k.todo \subseteq Refs(ft))
    /\ [][(nmsgs' = nmsgs /\ last'.ref # 0) =>
            /\ last'.ref \in Refs(ft)
            /\ \E k \in tasks : k.id = last'.obj.id /\ last'.ref \in k.todo
         ]_vars

(* A DELETE-STRICT removed an entry a running task matched at spawn and    *)
(* had not reached yet.                                                    *)
C7_Witness ==
    /\ last.op = "flow_delete_strict"
    /\ \E k \in tasks : \E x \in k.snap :
         /\ x \notin Refs(ft)
         /\ x \notin SeqToSet(k.seen)

NoDup(q) == \A i, j \in 1..Len(q) : i # j => q[i] # q[j]

(* C8: a task's callback gets each entry at most once, then NULL exactly   *)
(* once, and nothing after that: a running task has had no NULL call, no   *)
(* task gets a second one, a task ends only in its NULL call, and in the   *)
(* end every task that was spawned has ended.                              *)
C8_OncePerEntryThenNullOnce ==
    /\ [](\A k \in tasks : NoDup(k.seen) /\ nullcalls[k.id] = 0)
    /\ [](\A i \in DOMAIN nullcalls : nullcalls[i] <= 1)
    /\ [][\A k \in tasks :
            (k.id \notin TaskIds(tasks')) =>
               /\ Ends(k)
               /\ last'.ref = 0
               /\ last'.obj.id = k.id]_vars
    /\ <>[](tasks = {})

(* A MODIFY task that was given both entries of the table has ended in    *)
(* its NULL call                                                          *)
C8_Witness ==
    /\ last.op = "modify"
    /\ last.ref = 0
    /\ nullcalls[last.obj.id] = 1
    /\ last.obj.id \notin TaskIds(tasks)
    /\ Len(ft) = 2
    /\ \A i \in 1..Len(ft) : ft[i].effects.actions = last.obj.eff

(* C9: every entry has exactly one of actions / instructions populated,    *)
(* the one effects.wire_version selects, in every state a handler or a     *)
(* callback can observe.                                                   *)
C9_EffectsNotTorn ==
    \A i \in 1..Len(ft) :
        LET e == ft[i].effects
        IN  IF e.wire_version = OF_VERSION_1_0
            THEN e.actions # NULL /\ e.instructions = NULL
            ELSE e.actions = NULL /\ e.instructions # NULL

(* A MODIFY at 1.3 replaced the effects of an entry installed at 1.0 *)
C9_Witness ==
    \E i \in 1..Len(ft) :
        /\ ft[i].version = OF_VERSION_1_0
        /\ ft[i].effects.wire_version = OF_VERSION_1_3
        /\ ft[i].effects.instructions = 2

----------------------------------------------------------------------------
(* Flow stats and wire versions                                            *)

(* The step gives an entry to the callback of a flow-stats task *)
StatsDelivery ==
    /\ nmsgs' = nmsgs
    /\ last'.op = "flow_stats"
    /\ last'.ref # 0

(* FWD.flow_stats_get, the reply allocation and the append all succeed *)
StatsCollaboratorsOk ==
    /\ last'.r.stats = "NONE"
    /\ last'.r.append
    /\ last'.r.reply \/ \E k \in tasks : k.id = last'.obj.id /\ k.reply # NoReply

(* The entry given in this step is in the task's reply, pending or sent *)
ReportedNow ==
    \/ \E k \in tasks' :
         /\ k.id = last'.obj.id
         /\ k.reply # NoReply
         /\ \E j \in 1..Len(k.reply[1].entries) :
              k.reply[1].entries[j].ref = last'.ref
    \/ \E w \in 1..Len(last'.wire) :
         /\ last'.wire[w].what = "flow_stats_reply"
         /\ \E j \in 1..Len(last'.wire[w].entries) :
              last'.wire[w].entries[j].ref = last'.ref

(* C10 as stated: an entry the request matches is in the response exactly  *)
(* when the request's version is the version of the ADD that installed it. *)
C10_InstalledVersionDecides ==
    [][(StatsDelivery /\ StatsCollaboratorsOk) =>
          (ReportedNow <=>
             last'.obj.ver = EntryOf(ft, last'.ref).version)]_vars

(* C10: an entry given to a flow-stats task is in the response exactly     *)
(* when the request's version is the wire version of the entry's current   *)
(* effects (those of its ADD or of the last MODIFY that replaced them) and *)
(* FWD.flow_stats_get, the reply allocation and the append succeed.        *)
C10_EffectsVersionDecides ==
    [][StatsDelivery =>
          (ReportedNow <=>
             /\ StatsCollaboratorsOk
             /\ last'.obj.ver = EntryOf(ft, last'.ref).effects.wire_version)
      ]_vars

(* An entry installed at 1.0 and modified at 1.3 is in a 1.3 response *)
C10_Witness ==
    /\ last.op = "flow_stats"
    /\ last.ref # 0
    /\ last.obj.ver = OF_VERSION_1_3
    /\ EntryOf(ft, last.ref).version = OF_VERSION_1_0
    /\ \E k \in tasks :
         /\ k.id = last.obj.id
         /\ k.reply # NoReply
         /\ \E j \in 1..Len(k.reply[1].entries) :
              k.reply[1].entries[j].ref = last.ref

----------------------------------------------------------------------------
(* DELETE twice                                                            *)

(* DELETE messages over every match, with and without an out_port filter *)
DeleteMsgs ==
    {[Msg("flow_delete", mt, 1, {}, 1) EXCEPT !.out_port = p]
       : mt \in {M1, M2, MW}, p \in {OF_PORT_DEST_WILDCARD, 1, 2}}

(* The entries of table f the DELETE query of d matches *)
DeleteMatches(f, d) ==
    {i \in 1..Len(f) :
       ft_entry_meta_match(flow_mod_setup_query(d, "NON_STRICT", FALSE).query,
                           f[i])}

(* C11: from every flow table state and for every DELETE d, running d to   *)
(* completion twice in a row leaves the flow table that running it once    *)
(* leaves; and a DELETE whose query matches no entry puts no error on the  *)
(* wire and changes nothing in the table, the counters or FWD.             *)
C11_DeleteTwiceIsDeleteOnce ==
    \A d \in DeleteMsgs :
       \E once \in {DeleteToCompletion(Machine, Obj(d, nmsgs + 1), BaseResp)} :
          /\ DeleteToCompletion([once EXCEPT !.wire = <<>>, !.calls = <<>>],
                                Obj(d, nmsgs + 2), BaseResp).ft = once.ft
          /\ DeleteMatches(ft, d) = {} =>
                /\ once.ft = ft
                /\ once.status = status
                /\ once.fwd_flows = fwd_flows
                /\ once.wire = <<>>
                /\ once.calls = <<>>

(* A table from which some DELETE removes two entries and leaves one, and  *)
(* from which another DELETE removes nothing.                              *)
C11_Witness ==
    /\ \E d \in DeleteMsgs :
         /\ Cardinality(DeleteMatches(ft, d)) = 2
         /\ Len(DeleteToCompletion(Machine, Obj(d, nmsgs + 1), BaseResp).ft) = 1
    /\ \E d \in DeleteMsgs : Len(ft) = 3 /\ DeleteMatches(ft, d) = {}

----------------------------------------------------------------------------
(* C12: every non-error reply a handler or task callback sends (the send   *)
(* succeeding) carries the xid of the request it answers.                  *)

IsReply(w) == w.what \notin {"error", "flow_removed"}

C12_RepliesEchoXid ==
    \A i \in 1..Len(last.wire) :
       (IsReply(last.wire[i]) /\ last.wire[i].ok)
          => last.wire[i].xid = last.obj.xid

----------------------------------------------------------------------------
(* C13: one outcome per request *)

(* What the controller got from a run: the replies and errors whose send   *)
(* succeeded, in order                                                     *)
Delivered(wire) ==
    SelectSeq(wire, LAMBDA w : w.ok /\ w.what # "flow_removed")

ReplyRequestKinds == SyncReplyKinds \cup StatsKinds

(* C13 as stated: no handler run or callback sends the controller two      *)
(* messages, and two runs in a row for the same request both send one      *)
(* only when these are segments of one flow-stats sequence.                *)
C13_OneOutcomePerRequest ==
    [][\E now_out \in {Delivered(last'.wire)} :
         /\ Len(now_out) <= 1
         /\ (last'.obj.id = last.obj.id /\ now_out # <<>>
                /\ Delivered(last.wire) # <<>>)
              => (now_out[1].what = "flow_stats_reply"
                    /\ Delivered(last.wire)[1].what = "flow_stats_reply")]_vars

(* C13 amended: for a request that produces a reply (the synchronous       *)
(* reply handlers, flow stats, aggregate stats) every handler run or       *)
(* callback sends at most one message; a synchronous request gets its one  *)
(* reply or its one error in its only run; an aggregate-stats request gets *)
(* a reply only in its one terminal callback and never an error; a         *)
(* flow-stats request gets only segments of its sequence, never an error,  *)
(* and a segment with the more flag cleared only in its one terminal       *)
(* callback.  A non-strict MODIFY is no such request: it causes one error  *)
(* per matched entry that FWD refuses to modify.                           *)
C13_OneOutcomePerReplyRequest ==
    [][\E out \in {Delivered(last'.wire)} :
         last'.obj.kind \in ReplyRequestKinds =>
           /\ Len(out) <= 1
           /\ last'.obj.kind \in SyncReplyKinds => nmsgs' = nmsgs + 1
           /\ (last'.obj.kind \in StatsKinds /\ out # <<>>) =>
                /\ nmsgs' = nmsgs
                /\ out[1].what = IF last'.obj.kind = "flow_stats_request"
                                 THEN "flow_stats_reply"
                                 ELSE "aggregate_stats_reply"
                /\ (last'.obj.kind = "aggregate_stats_request"
                       \/ out[1].flags = 0)
                     => (last'.ref = 0 /\ nullcalls'[last'.obj.id] = 1)]_vars

C13_Witness ==
    /\ last.op = "port_stats_request"
    /\ Len(Delivered(last.wire)) = 1
    /\ last.wire[1].what = "error"
    /\ last.rv # "NONE"

----------------------------------------------------------------------------
(* C14: the segments of a flow-stats reply *)

Segments(wire) == SelectSeq(wire, LAMBDA w : w.what = "flow_stats_reply")

(* What holds of every segment: it is handed to the send layer by a        *)
(* callback of a running flow-stats task, carries the xid of that task's   *)
(* request, has the more flag set when the callback got an entry, and      *)
(* cleared when it is the terminal callback, which is the task's only one  *)
(* and ends the task.                                                      *)
SegmentRules ==
    \E seg \in {Segments(last'.wire)} :
       /\ Len(seg) <= 1
       /\ seg # <<>> =>
            /\ last'.op = "flow_stats"
            /\ \E k \in tasks : k.id = last'.obj.id /\ k.req = last'.obj
            /\ seg[1].xid = last'.obj.xid
            /\ seg[1].flags = IF last'.ref = 0 THEN 0 ELSE 1
       /\ (last'.op = "flow_stats" /\ nmsgs' = nmsgs /\ last'.ref = 0) =>
            /\ nullcalls'[last'.obj.id] = 1
            /\ ~ \E k \in tasks' : k.id = last'.obj.id

TerminalStatsCallback ==
    last'.op = "flow_stats" /\ nmsgs' = nmsgs /\ last'.ref = 0

(* C14 as stated: the segments of a flow-stats task all carry the          *)
(* request's xid, all but the last have the more flag set, and the         *)
(* terminal callback always sends the one segment with the flag cleared.   *)
C14_FinalSegmentAlwaysSent ==
    [][/\ SegmentRules
       /\ TerminalStatsCallback => Len(Segments(last'.wire)) = 1]_vars

(* C14 amended: as above, but the terminal callback sends the final        *)
(* segment exactly when it has a pending reply or can allocate one; when   *)
(* no reply is pending and of_flow_stats_reply_new fails, it sends nothing *)
(* and the sequence ends without a segment that clears the more flag.      *)
C14_FinalSegmentUnlessNoReply ==
    [][/\ SegmentRules
       /\ TerminalStatsCallback =>
            \E k \in tasks :
               /\ k.id = last'.obj.id
               /\ Len(Segments(last'.wire))
                    = IF k.reply # NoReply \/ last'.r.reply THEN 1 ELSE 0]_vars

(* A terminal callback sent the final segment with no entry in it *)
C14_Witness ==
    /\ last.op = "flow_stats"
    /\ last.ref = 0
    /\ Len(last.wire) = 1
    /\ last.wire[1].flags = 0
    /\ last.wire[1].entries = <<>>
    /\ last.wire[1].xid = last.obj.xid

----------------------------------------------------------------------------
(* The ADD specification: ADDs only, at every wire version, through every  *)
(* path of the handler (overlap, emergency timeouts, bad match, ft_add     *)
(* and FWD failures, overwrite).                                           *)

MaxAddMsgs == 3

AddMsg(ver, match, flags, idle, hard, eff) ==
    [BaseMsg EXCEPT !.ver = ver, !.match = match, !.flags = flags,
                    !.idle_timeout = idle, !.hard_timeout = hard, !.eff = eff]

AddInputs ==
         {In(AddMsg(1, mt, f, 0, 0, e), BaseResp)
            : mt \in {M1, MW}, e \in {1, 2},
              f \in {{}, {"CHECK_OVERLAP"}, {"SEND_FLOW_REM"}}}
    \cup {In(AddMsg(1, MW, f, i, h, 1), BaseResp)
            : f \in {{"EMERG"}, {"EMERG", "CHECK_OVERLAP"}},
              i \in {0, 1}, h \in {0, 1}}
    \cup {In(AddMsg(v, MW, {}, 0, 0, 1), [BaseResp EXCEPT !.fwd = x])
            : v \in Versions, x \in {"RESOURCE", "NOT_SUPPORTED", "UNKNOWN"}}
    \cup {In(AddMsg(v, MW, {}, 0, 0, 1), BaseResp) : v \in Versions}
    \cup {In(AddMsg(1, MW, {}, 0, 0, 1), [BaseResp EXCEPT !.ft_add = "RESOURCE"])}
    \cup {In(AddMsg(1, MW, {}, 0, 0, 1), [BaseResp EXCEPT !.send = FALSE,
                                                         !.fwd = "RESOURCE"])}
    \cup {In([AddMsg(1, MW, f, 0, 0, 1) EXCEPT !.bad_match = TRUE], BaseResp)
            : f \in {{}, {"CHECK_OVERLAP"}}}

AddEnv == [inputs |-> AddInputs, resps |-> {BaseResp}, max |-> MaxAddMsgs]

InitAdd == InitOf(AddEnv)

NextAdd == FlowAdd(AddEnv)

SpecAdd == InitAdd /\ [][NextAdd]_vars

----------------------------------------------------------------------------
(* C15: the ADD handler returns NONE on every path *)

(* The path the last ADD took through its handler *)
AddPath ==
    IF last.wire # <<>> /\ last.wire[1].what = "error"
          /\ last.wire[1].code \in {"OVERLAP", "BAD_EMERG_TIMEOUT"}
    THEN last.wire[1].code
    ELSE IF last.obj.bad_match THEN "QUERY"
    ELSE IF last.r.ft_add # "NONE" THEN "FT_ADD"
    ELSE IF last.r.fwd # "NONE" THEN "FWD"
    ELSE "SUCCESS"

(* C15: whatever path an ADD takes (overlap rejected, bad emergency        *)
(* timeout, query-setup failure, ft_add failure, FWD.flow_create failure,  *)
(* success), its handler returns NONE; an error goes out on the wire only. *)
C15_AddReturnsNone ==
    last.op = "flow_add" =>
       /\ last.rv = "NONE"
       /\ AddPath = "FWD" =>
            (Len(last.wire) = 1 /\ last.wire[1].what = "error")
       /\ AddPath \in {"QUERY", "FT_ADD", "SUCCESS"} =>
            \A i \in 1..Len(last.wire) : last.wire[i].what # "error"

C15_Witness ==
    /\ last.op = "flow_add"
    /\ AddPath = "FT_ADD"
    /\ last.rv = "NONE"
    /\ last.wire = <<>>
    /\ released[last.obj.id] = 1

----------------------------------------------------------------------------
(* C16: an ADD with EMERG and a non-zero timeout *)

BadEmergAdd ==
    /\ last'.op = "flow_add"
    /\ nmsgs' = nmsgs + 1
    /\ "EMERG" \in last'.obj.flags
    /\ last'.obj.idle_timeout # 0 \/ last'.obj.hard_timeout # 0
    /\ ~ ("CHECK_OVERLAP" \in last'.obj.flags /\ overlap_found(ft, last'.obj) # 0)

BadEmergRejected ==
    /\ Len(last'.wire) = 1
    /\ last'.wire[1].what = "error"
    /\ last'.wire[1].etype = "FLOW_MOD_FAILED"
    /\ last'.wire[1].code = "BAD_EMERG_TIMEOUT"
    /\ last'.wire[1].xid = last'.obj.xid
    /\ ft' = ft
    /\ fwd_flows' = fwd_flows
    /\ last'.calls = <<>>

(* C16 as stated: such an ADD sends exactly one FLOW_MOD_FAILED /          *)
(* BAD_EMERG_TIMEOUT error with the request's xid, installs and removes    *)
(* no entry, and the handler returns PARAM.                                *)
C16_BadEmergReturnsParam ==
    [][BadEmergAdd => (BadEmergRejected /\ last'.rv = "PARAM")]_vars

(* C16 amended: the same, but the handler returns NONE: PARAM is assigned  *)
(* to rv and the function ends in "return INDIGO_ERROR_NONE".              *)
C16_BadEmergReturnsNone ==
    [][BadEmergAdd => (BadEmergRejected /\ last'.rv = "NONE")]_vars

C16_Witness ==
    /\ last.op = "flow_add"
    /\ "EMERG" \in last.obj.flags
    /\ last.obj.hard_timeout # 0
    /\ last.obj.idle_timeout = 0
    /\ Len(ft) = 1
    /\ Len(last.wire) = 1
    /\ last.wire[1].code = "BAD_EMERG_TIMEOUT"

----------------------------------------------------------------------------
(* C17: overwrite *)

(* The last step was an ADD that got past its checks, found the entry at   *)
(* index i by its STRICT query and was accepted by ft_add and FWD.         *)
Overwrote(i) ==
    /\ last'.op = "flow_add"
    /\ nmsgs' = nmsgs + 1
    /\ ~ ("CHECK_OVERLAP" \in last'.obj.flags /\ overlap_found(ft, last'.obj) # 0)
    /\ ~ ("EMERG" \in last'.obj.flags
            /\ (last'.obj.idle_timeout # 0 \/ last'.obj.hard_timeout # 0))
    /\ ~ last'.obj.bad_match
    /\ i = ft_strict_match(ft, flow_mod_setup_query(last'.obj, "STRICT", TRUE).query)
    /\ i # 0
    /\ last'.r.ft_add = "NONE"
    /\ last'.r.fwd = "NONE"

(* C17: when an ADD's STRICT query matches an entry E and FWD.flow_create  *)
(* succeeds, afterwards E is gone, exactly one new entry with a new flow   *)
(* id and the request's effects is there, current_count is unchanged,      *)
(* FWD.flow_delete was called exactly once, with E's id, and no            *)
(* flow_removed is sent when E did not set SEND_FLOW_REM.                  *)
C17_OverwriteReplaces ==
    [][\A i \in 1..Len(ft) :
         Overwrote(i) =>
           /\ ft[i].ref \notin Refs(ft')
           /\ Refs(ft') = (Refs(ft) \ {ft[i].ref}) \cup {last'.obj.id}
           /\ Len(ft') = Len(ft)
           /\ \A j \in 1..Len(ft') :
                 ft'[j].ref = last'.obj.id =>
                    /\ ft'[j].id \notin {ft[n].id : n \in 1..Len(ft)}
                    /\ ft'[j].effects = MsgEffects(last'.obj)
                    /\ ft'[j].id \in fwd_flows'
           /\ status'.current_count = status.current_count
           /\ SelectSeq(last'.calls, LAMBDA c : c[1] = "flow_delete")
                = << <<"flow_delete", ft[i].id>> >>
           /\ ft[i].id \notin fwd_flows'
           /\ "SEND_FLOW_REM" \notin ft[i].flags =>
                 \A n \in 1..Len(last'.wire) :
                    last'.wire[n].what # "flow_removed"]_vars

(* An entry was overwritten by an ADD with other effects *)
C17_Witness ==
    /\ last.op = "flow_add"
    /\ Len(ft) = 1
    /\ status.adds = 2
    /\ status.deletes = 1
    /\ ft[1].ref = last.obj.id
    /\ ft[1].effects.actions = 2
    /\ last.calls = << <<"flow_delete", 1>>, <<"flow_create", 2>> >>

----------------------------------------------------------------------------
(* C18: what a non-strict DELETE run to completion leaves behind *)

FlowDeleteCalls(calls) == SelectSeq(calls, LAMBDA c : c[1] = "flow_delete")

(* C18: from every flow table state and for every DELETE d (with and       *)
(* without an out_port filter), once the handler has run and its task has  *)
(* reached the terminal callback with nothing in between: no entry that    *)
(* d's query matches is left, the entries it does not match are untouched  *)
(* and in their order, FWD.flow_delete was called exactly once for each    *)
(* removed entry, the request was released once, the task is gone and no   *)
(* error went out on the wire.                                             *)
C18_DeleteRemovesExactlyMatches ==
    (nmsgs + 1) \in DOMAIN released =>
    \A d \in DeleteMsgs :
       \E done \in {DeleteToCompletion(Machine, Obj(d, nmsgs + 1), BaseResp)} :
          /\ DeleteMatches(done.ft, d) = {}
          /\ done.ft = SelectSeq(ft, LAMBDA e :
                          \A i \in DeleteMatches(ft, d) : ft[i].ref # e.ref)
          /\ Len(FlowDeleteCalls(done.calls)) = Cardinality(DeleteMatches(ft, d))
          /\ {c[2] : c \in SeqToSet(FlowDeleteCalls(done.calls))}
                = {ft[i].id : i \in DeleteMatches(ft, d)}
          /\ done.released[nmsgs + 1] = 1
          /\ ~ \E k \in done.tasks : k.id = nmsgs + 1
          /\ \A n \in 1..Len(done.wire) : done.wire[n].what # "error"

(* A table of two entries of which a DELETE with an out_port filter        *)
(* removes one                                                             *)
C18_Witness ==
    /\ (nmsgs + 1) \in DOMAIN released
    /\ Len(ft) = 2
    /\ \E d \in DeleteMsgs :
          /\ d.out_port # OF_PORT_DEST_WILDCARD
          /\ d.match = MW
          /\ Cardinality(DeleteMatches(ft, d)) = 1
          /\ Len(DeleteToCompletion(Machine, Obj(d, nmsgs + 1), BaseResp).ft) = 1

----------------------------------------------------------------------------
(* C19: the error code of a failed flow-mod, by wire version *)

(* The code the error table gives for an internal error at a version *)
TableCode(indigo_err, ver) ==
    CASE indigo_err = "RESOURCE" ->
            IF ver = OF_VERSION_1_0 THEN "ALL_TABLES_FULL" ELSE "TABLE_FULL"
      [] indigo_err = "NOT_SUPPORTED" ->
            IF ver = OF_VERSION_1_0 THEN "UNSUPPORTED" ELSE "BAD_COMMAND"
      [] OTHER ->
            IF ver = OF_VERSION_1_0 THEN "EPERM" ELSE "UNKNOWN"

(* C19: at every wire version, an ADD that FWD refuses with an internal    *)
(* error sends one FLOW_MOD_FAILED error whose code is the one the error   *)
(* table gives for that error and version (RESOURCE: ALL_TABLES_FULL at    *)
(* 1.0, TABLE_FULL later; NOT_SUPPORTED: UNSUPPORTED at 1.0, BAD_COMMAND   *)
(* later; others: EPERM at 1.0, UNKNOWN later); an ADD that FWD accepts    *)
(* sends no error.                                                         *)
C19_CodeByVersion ==
    (last.op = "flow_add" /\ AddPath \in {"FWD", "SUCCESS"}) =>
       IF last.r.fwd = "NONE"
       THEN \A i \in 1..Len(last.wire) : last.wire[i].what # "error"
       ELSE /\ Len(last.wire) = 1
            /\ last.wire[1].what = "error"
            /\ last.wire[1].etype = "FLOW_MOD_FAILED"
            /\ last.wire[1].ver = last.obj.ver
            /\ last.wire[1].code = TableCode(last.r.fwd, last.obj.ver)

----------------------------------------------------------------------------
(* C20: the EXPERIMENTER handler, by the results of FWD and PORT *)

(* C20: for every pair (fwd_rv, port_rv) the two modules return, the       *)
(* handler sends BAD_REQUEST / BAD_EXPERIMENTER exactly when both are      *)
(* NOT_SUPPORTED; otherwise it returns NONE when at least one of them is   *)
(* NONE and a non-NONE error when neither is.                              *)
C20_ExperimenterOutcome ==
    (last.op = "experimenter" /\ last.r.dup) =>
       LET both == last.r.fwd = "NOT_SUPPORTED" /\ last.r.port = "NOT_SUPPORTED"
       IN  /\ IF both
              THEN /\ Len(last.wire) = 1
                   /\ last.wire[1].what = "error"
                   /\ last.wire[1].etype = "BAD_REQUEST"
                   /\ last.wire[1].code = "BAD_EXPERIMENTER"
              ELSE last.wire = <<>>
           /\ ~both =>
                IF last.r.fwd = "NONE" \/ last.r.port = "NONE"
                THEN last.rv = "NONE"
                ELSE last.rv # "NONE"

(* Both modules answered NOT_SUPPORTED and the error went out *)
C20_Witness ==
    /\ last.op = "experimenter"
    /\ last.r.dup
    /\ last.r.fwd = "NOT_SUPPORTED"
    /\ last.r.port = "NOT_SUPPORTED"
    /\ Len(last.wire) = 1
    /\ last.wire[1].code = "BAD_EXPERIMENTER"
    /\ last.rv = "NONE"

----------------------------------------------------------------------------
(* C21: messages without a handler of their own *)

(* C21: the unhandled-message handler sends one BAD_REQUEST / BAD_TYPE     *)
(* error carrying the inbound xid, releases the message once and returns   *)
(* UNKNOWN; an EXPERIMENTER_STATS request takes this path, so it gets the  *)
(* same error and is released once.                                        *)
C21_UnhandledIsBadType ==
    last.op \in {"unhandled", "experimenter_stats_request"} =>
       /\ Len(last.wire) = 1
       /\ last.wire[1].what = "error"
       /\ last.wire[1].etype = "BAD_REQUEST"
       /\ last.wire[1].code = "BAD_TYPE"
       /\ last.wire[1].xid = last.obj.xid
       /\ last.wire[1].ver = last.obj.ver
       /\ released[last.obj.id] = 1
       /\ last.op = "unhandled" => last.rv = "UNKNOWN"

(* An EXPERIMENTER_STATS request at 1.3 was answered with the error *)
C21_Witness ==
    /\ last.op = "experimenter_stats_request"
    /\ last.obj.ver = OF_VERSION_1_3
    /\ Len(last.wire) = 1
    /\ last.wire[1].code = "BAD_TYPE"
    /\ last.wire[1].ok
    /\ released[last.obj.id] = 1

----------------------------------------------------------------------------
(* C22: the state struct of a task cannot be allocated *)

TaskHandlerOps == {"flow_modify", "flow_delete", "flow_stats_request",
                   "aggregate_stats_request"}

(* C22: when INDIGO_MEM_ALLOC of the state struct fails, each of the       *)
(* non-strict MODIFY, non-strict DELETE, flow-stats and aggregate-stats    *)
(* handlers returns RESOURCE, releases the request, spawns no task and     *)
(* sends nothing.                                                          *)
C22_NoStateNoTask ==
    [][(last'.op \in TaskHandlerOps /\ nmsgs' = nmsgs + 1 /\ ~last'.r.alloc) =>
         /\ last'.rv = "RESOURCE"
         /\ released'[last'.obj.id] = 1
         /\ tasks' = tasks
         /\ last'.wire = <<>>]_vars

----------------------------------------------------------------------------
(* C23: a reply whose send fails *)

(* The last run handed a reply to the send layer and the send failed *)
ReplySendFailed ==
    /\ last'.obj.kind \in SyncReplyKinds
    /\ nmsgs' = nmsgs + 1
    /\ \E i \in 1..Len(last'.wire) :
          IsReply(last'.wire[i]) /\ ~last'.wire[i].ok

(* C23: when a synchronous handler's reply cannot be sent, the handler     *)
(* returns the failure to the dispatcher, and the flow table, its          *)
(* counters, the flows FWD holds and the tasks are what they were (the     *)
(* handler changes none of them whether the send succeeds or not).         *)
C23_SendFailureReturned ==
    [][ReplySendFailed =>
         /\ last'.rv # "NONE"
         /\ ft' = ft
         /\ status' = status
         /\ fwd_flows' = fwd_flows
         /\ tasks' = tasks]_vars

----------------------------------------------------------------------------
(* C24: the life of reply objects *)

(* How many times a run recorded event ev on reply objects *)
ReplyEvents(run, ev) == Len(SelectSeq(run.replies, LAMBDA x : x = ev))

(* Replies the send layer took over in a run *)
RepliesSent(run) == Len(SelectSeq(run.wire, LAMBDA w : IsReply(w) /\ w.ok))

(* Replies the tasks hold between two callbacks *)
RepliesPending(ts) == Cardinality({k \in ts : k.reply # NoReply})

(* C24: every reply object a handler or a task callback allocates, or      *)
(* receives from FWD or PORT, is either handed to the send layer by a send *)
(* that succeeds or released by the handler, exactly once: after each run  *)
(* the replies held before it plus the new ones are the replies sent, the  *)
(* replies released and the replies still held by a task.                  *)
C24_RepliesSentOrReleased ==
    [][RepliesPending(tasks) + ReplyEvents(last', "new")
         = RepliesSent(last') + ReplyEvents(last', "delete")
           + RepliesPending(tasks')]_vars

----------------------------------------------------------------------------
(* C25: tasks end, also when the flow table is torn down under them *)

(* The flow table is torn down while tasks are active: every task is left  *)
(* with an empty remainder, so that its next slice is the NULL call.       *)
ft_destroy ==
    /\ \E k \in tasks : NextIndex(ft, k) # 0
    /\ tasks' = {[k EXCEPT !.todo = {}] : k \in tasks}
    /\ UNCHANGED <<ft, status, next_flow_id, next_xid, fwd_flows, nmsgs,
                   released, now, nullcalls, last>>

MaxCancelMsgs == 2

CancelEnv ==
    [inputs |-> SchedInputs,
     resps |-> {BaseResp, [BaseResp EXCEPT !.reply = FALSE]},
     max |-> MaxCancelMsgs]

InitCancel == InitOf(CancelEnv)

NextCancel ==
    \/ FlowAdd(CancelEnv)
    \/ FlowModify(CancelEnv)
    \/ FlowDelete(CancelEnv)
    \/ FlowDeleteStrict(CancelEnv)
    \/ FlowStatsRequest(CancelEnv)
    \/ AggregateStatsRequest(CancelEnv)
    \/ ModifyIter(CancelEnv)
    \/ DeleteIter(CancelEnv)
    \/ FlowStatsIter(CancelEnv)
    \/ AggregateStatsIter(CancelEnv)
    \/ ft_destroy

SpecCancel ==
    /\ InitCancel
    /\ [][NextCancel]_vars
    /\ WF_vars(RunTasks(CancelEnv))

(* C25: under a fair scheduler every iteration task a non-strict MODIFY,   *)
(* a non-strict DELETE, a flow-stats or an aggregate-stats request spawned *)
(* eventually gets its NULL call, also when other flow-mods run between    *)
(* its slices or the flow table is torn down under it; then the task's     *)
(* state is freed and its request has been released once.                  *)
C25_TasksReachTerminal ==
    /\ <>[](tasks = {})
    /\ [][\A k \in tasks :
            (k.id \notin TaskIds(tasks')) =>
               /\ last'.ref = 0
               /\ nullcalls'[k.id] = 1
               /\ released'[k.id] = 1]_vars

(* A DELETE task got its NULL call while an entry older than its request   *)
(* was still in the table: the table was torn down under it.               *)
C25_Witness ==
    /\ last.op = "delete"
    /\ last.ref = 0
    /\ nullcalls[last.obj.id] = 1
    /\ released[last.obj.id] = 1
    /\ last.obj.id \notin TaskIds(tasks)
    /\ \E i \in 1..Len(ft) : ft[i].ref < last.obj.id

----------------------------------------------------------------------------
(* C26: the two allocators on their own, from counters early in their      *)
(* range and at the end of it.                                             *)

MaxAllocs == 3

InitAlloc ==
    /\ ft = <<>>
    /\ status = [current_count |-> 0, adds |-> 0, deletes |-> 0,
                 forwarding_add_errors |-> 0]
    /\ next_flow_id \in {FlowIdStart, FlowIdStart + 1, UINT32_MAX - 1, UINT32_MAX}
    /\ next_xid \in {XidStart, XidStart + 1, UINT32_MAX - 1, UINT32_MAX}
    /\ fwd_flows = {}
    /\ tasks = {}
    /\ nmsgs = 0
    /\ released = [i \in 1..MaxAllocs |-> 0]
    /\ nullcalls = [i \in 1..MaxAllocs |-> 0]
    /\ now = 0
    /\ last = [op |-> "init", obj |-> NoObj, rv |-> "NONE", ref |-> 0,
               r |-> BaseResp, wire |-> <<>>, calls |-> <<>>,
               replies |-> <<>>]

(* One call of ind_core_xid_alloc; last.ref is the value it returned *)
XidAlloc ==
    /\ nmsgs < MaxAllocs
    /\ \E a \in {ind_core_xid_alloc(Machine)} :
         /\ next_xid' = a.S.next_xid
         /\ last' = [last EXCEPT !.op = "ind_core_xid_alloc", !.ref = a.xid]
    /\ nmsgs' = nmsgs + 1
    /\ UNCHANGED <<ft, status, next_flow_id, fwd_flows, tasks, released, now,
                   nullcalls>>

(* One call of flow_id_next; last.ref is the value it returned *)
FlowIdNext ==
    /\ nmsgs < MaxAllocs
    /\ \E a \in {flow_id_next(Machine)} :
         /\ next_flow_id' = a.S.next_flow_id
         /\ last' = [last EXCEPT !.op = "flow_id_next", !.ref = a.flow_id]
    /\ nmsgs' = nmsgs + 1
    /\ UNCHANGED <<ft, status, next_xid, fwd_flows, tasks, released, now,
                   nullcalls>>

NextAlloc ==
    \/ XidAlloc
    \/ FlowIdNext

SpecAlloc == InitAlloc /\ [][NextAlloc]_vars

(* C26: neither allocator ever returns zero, also past the wrap-around of  *)
(* its 32-bit counter: the xid allocator returns the counter's value and   *)
(* moves it on, skipping zero, and so does the flow-id allocator.          *)
C26_AllocatorsSkipZero ==
    /\ last.op \in {"ind_core_xid_alloc", "flow_id_next"} => last.ref # 0
    /\ next_xid # 0
    /\ next_flow_id # 0

----------------------------------------------------------------------------
(* C27: an ADD that FWD refuses *)

(* The step is an ADD that got as far as FWD.flow_create and was refused *)
AddRefusedByFwd == last'.op = "flow_add" /\ AddPath' = "FWD"

----------------------------------------------------------------------------
(* C28: what a MODIFY that matched may change *)

(* The step belongs to a MODIFY that matched: a callback of a MODIFY task  *)
(* that is given an entry, the NULL call of a task that was given one, or  *)
(* a MODIFY-STRICT whose strict match found an entry.                      *)
ModifyMatchedStep ==
    \/ /\ last'.op = "modify"
       /\ nmsgs' = nmsgs
       /\ \/ last'.ref # 0
          \/ \E k \in tasks : k.id = last'.obj.id /\ k.num_matched > 0
    \/ /\ last'.op = "flow_modify_strict"
       /\ nmsgs' = nmsgs + 1
       /\ ~last'.obj.bad_match
       /\ ft_strict_match(
            ft, flow_mod_setup_query(last'.obj, "STRICT", TRUE).query) # 0

(* The entry such a step is about: the one the callback was given, or the  *)
(* one the strict match found (0 in the NULL call)                         *)
ModifiedRef ==
    IF last'.op = "modify" THEN last'.ref
    ELSE ft[ft_strict_match(
              ft, flow_mod_setup_query(last'.obj, "STRICT", TRUE).query)].ref

(* C28: a MODIFY or MODIFY-STRICT that matches at least one entry changes  *)
(* nothing but the effects of the matched entries whose FWD.flow_modify    *)
(* succeeded: the entries stay the same entries in the same order with     *)
(* their id, match, priority, table id, cookie, flags, timeouts and        *)
(* insert time, the status counters and the flows FWD holds stay, and an   *)
(* entry whose FWD.flow_modify failed keeps its old effects.               *)
C28_ModifyChangesOnlyEffects ==
    [][ModifyMatchedStep =>
         /\ Len(ft') = Len(ft)
         /\ \A i \in 1..Len(ft) :
               /\ [ft'[i] EXCEPT !.effects = ft[i].effects] = ft[i]
               /\ ft'[i].effects # ft[i].effects =>
                     /\ ft[i].ref = ModifiedRef
                     /\ last'.r.fwd = "NONE"
                     /\ ft'[i].effects = MsgEffects(last'.obj)
         /\ last'.r.fwd # "NONE" => ft' = ft
         /\ status' = status
         /\ fwd_flows' = fwd_flows
         /\ next_flow_id' = next_flow_id]_vars

(* A MODIFY task rewrote the effects of the second entry after FWD had     *)
(* refused the change of the first                                         *)
C28_Witness ==
    /\ last.op = "modify"
    /\ last.ref # 0
    /\ last.r.fwd = "NONE"
    /\ Len(ft) = 2
    /\ ft[2].ref = last.ref
    /\ ft[2].effects = MsgEffects(last.obj)
    /\ ft[1].effects # MsgEffects(last.obj)
    /\ ft_entry_meta_match(
         flow_mod_setup_query(last.obj, "NON_STRICT", TRUE).query, ft[1])

----------------------------------------------------------------------------
(* C29: the entries of one flow-stats response *)

RECURSIVE SegmentRefs(_)
(* The entries, by the flow-table entry they report, of the flow-stats     *)
(* segments of a run, in the order sent                                    *)
SegmentRefs(wire) ==
    IF wire = <<>> THEN <<>>
    ELSE (IF Head(wire).what = "flow_stats_reply"
          THEN [j \in 1..Len(Head(wire).entries) |-> Head(wire).entries[j].ref]
          ELSE <<>>) \o SegmentRefs(Tail(wire))

(* The entries of the reply task id holds between two callbacks *)
PendingRefs(ts, id) ==
    IF \E k \in ts : k.id = id /\ k.reply # NoReply
    THEN LET k == CHOOSE k \in ts : k.id = id
         IN  [j \in 1..Len(k.reply[1].entries) |-> k.reply[1].entries[j].ref]
    ELSE <<>>

(* A callback of a flow-stats task, with an entry or NULL *)
StatsCallback == last'.op = "flow_stats" /\ nmsgs' = nmsgs

(* The callback was given an entry whose effects have the request's version *)
StatsVersionMatch ==
    /\ last'.ref # 0
    /\ last'.obj.ver = EntryOf(ft, last'.ref).effects.wire_version

(* C29 as stated: across the segments of one flow-stats response every     *)
(* entry given to the callback whose effects version is the request's      *)
(* appears exactly once, in the order given: in each callback the segments *)
(* sent followed by the pending reply are the reply that was pending       *)
(* followed by the entry, if its version matches.                          *)
C29_EveryMatchingEntryOnce ==
    [][StatsCallback =>
         SegmentRefs(last'.wire) \o PendingRefs(tasks', last'.obj.id)
           = PendingRefs(tasks, last'.obj.id)
             \o (IF StatsVersionMatch THEN <<last'.ref>> ELSE <<>>)]_vars

(* C29: across the segments of one flow-stats response handed to the send  *)
(* layer, every entry given to the callback whose effects version is the   *)
(* request's, and for which a reply was there or could be allocated,       *)
(* FWD.flow_stats_get succeeded and the append succeeded, appears exactly  *)
(* once, in the order given; no entry is lost or repeated when a segment   *)
(* is sent at the size limit and a new one is started.                     *)
C29_EveryReportedEntryOnce ==
    [][StatsCallback =>
         /\ SegmentRefs(last'.wire) \o PendingRefs(tasks', last'.obj.id)
              = PendingRefs(tasks, last'.obj.id)
                \o (IF StatsVersionMatch /\ StatsCollaboratorsOk
                    THEN <<last'.ref>> ELSE <<>>)
         /\ last'.ref # 0 =>
              last'.ref \notin SeqToSet(PendingRefs(tasks, last'.obj.id))]_vars

(* The callback's entry took the pending reply over the limit: the segment *)
(* was sent with both entries and nothing is pending                       *)
C29_Witness ==
    /\ last.op = "flow_stats"
    /\ last.ref # 0
    /\ Len(last.wire) = 1
    /\ last.wire[1].what = "flow_stats_reply"
    /\ last.wire[1].flags = 1
    /\ Len(last.wire[1].entries) = 2
    /\ last.wire[1].entries[2].ref = last.ref
    /\ last.wire[1].entries[1].ref # last.ref
    /\ PendingRefs(tasks, last.obj.id) = <<>>
    /\ last.obj.id \in TaskIds(tasks)

----------------------------------------------------------------------------
(* C30: the size at which a flow-stats segment is sent *)

(* The length of the reply task id holds between two callbacks; a reply    *)
(* allocated in the callback starts at the length of its header            *)
PendingLength(ts, id) ==
    IF \E k \in ts : k.id = id /\ k.reply # NoReply
    THEN (CHOOSE k \in ts : k.id = id).reply[1].length
    ELSE StatsReplyHeaderLen

----------------------------------------------------------------------------
(* C31: the sums of an aggregate-stats reply *)

(* ADDs and aggregate-stats requests, with FWD.flow_stats_get, the reply's  *)
(* allocation and its send failing or not in each callback.                *)
AggregateInputs ==
         {In(VMsg("flow_add", 1, mt, 1), BaseResp) : mt \in {M1, M2, MW}}
    \cup {In(VMsg("aggregate_stats_request", v, mt, 1), r)
            : v \in {1, 4}, mt \in {M1, MW},
              r \in {BaseResp, [BaseResp EXCEPT !.alloc = FALSE]}}

AggregateEnv ==
    [inputs |-> AggregateInputs,
     resps |-> {BaseResp,
                [BaseResp EXCEPT !.stats = "UNKNOWN"],
                [BaseResp EXCEPT !.reply = FALSE],
                [BaseResp EXCEPT !.send = FALSE]},
     max |-> MaxMsgs]

NextAggregate ==
    \/ FlowAdd(AggregateEnv)
    \/ AggregateStatsRequest(AggregateEnv)
    \/ AggregateStatsIter(AggregateEnv)

SpecAggregate == InitOf(AggregateEnv) /\ [][NextAggregate]_vars

(* A callback of an aggregate-stats task, with an entry or NULL *)
AggregateCallback == last'.op = "aggregate_stats" /\ nmsgs' = nmsgs

(* The aggregate-stats replies of a run *)
AggregateReplies(wire) ==
    SelectSeq(wire, LAMBDA w : w.what = "aggregate_stats_reply")

(* What the callback's entry adds to the sums when it is counted *)
CountedEntry(counted) ==
    IF counted
    THEN [flows |-> 1,
          packets |-> FwdFlowStats(EntryOf(ft, last'.ref).id).packets,
          bytes |-> FwdFlowStats(EntryOf(ft, last'.ref).id).bytes]
    ELSE [flows |-> 0, packets |-> 0, bytes |-> 0]

(* The callbacks of an aggregate-stats task keep the sums over the entries *)
(* counted so far and send them in the NULL call, once if replied is true  *)
AggregateSums(counted, replied) ==
    /\ (last'.op = "aggregate_stats_request" /\ nmsgs' = nmsgs + 1) =>
          \A k \in tasks' \ tasks :
             k.flows = 0 /\ k.packets = 0 /\ k.bytes = 0
    /\ AggregateCallback =>
          \E k \in {j \in tasks : j.id = last'.obj.id} :
             IF last'.ref # 0
             THEN /\ AggregateReplies(last'.wire) = <<>>
                  /\ \E k2 \in {j \in tasks' : j.id = k.id} :
                     \E add \in {CountedEntry(counted)} :
                        /\ k2.flows = k.flows + add.flows
                        /\ k2.packets = k.packets + add.packets
                        /\ k2.bytes = k.bytes + add.bytes
             ELSE \E sent \in {AggregateReplies(last'.wire)} :
                     /\ Len(sent) = IF replied THEN 1 ELSE 0
                     /\ \A i \in 1..Len(sent) :
                           /\ sent[i].xid = k.req.xid
                           /\ sent[i].flow_count = k.flows
                           /\ sent[i].packet_count = k.packets
                           /\ sent[i].byte_count = k.bytes

(* C31 as stated: every aggregate-stats task that runs to its NULL call    *)
(* sends exactly one reply, there, with flow_count the number of entries   *)
(* given to the task and packet_count / byte_count the sums of             *)
(* FWD.flow_stats_get over exactly those entries.                          *)
C31_SumsOverDelivered == [][AggregateSums(TRUE, TRUE)]_vars

(* C31: every aggregate-stats task that runs to its NULL call sends one    *)
(* reply, there, unless the reply cannot be allocated, and none before;    *)
(* its flow_count is the number of entries given to the task for which     *)
(* FWD.flow_stats_get succeeded, and its packet_count / byte_count are the *)
(* sums of FWD.flow_stats_get over exactly those entries.                  *)
C31_SumsOverCounted ==
    [][AggregateSums(last'.r.stats = "NONE", last'.r.reply)]_vars

(* An aggregate-stats task sent the sums over two entries in its NULL call *)
C31_Witness ==
    /\ last.op = "aggregate_stats"
    /\ last.ref = 0
    /\ Len(last.wire) = 1
    /\ last.wire[1].what = "aggregate_stats_reply"
    /\ last.wire[1].xid = last.obj.xid
    /\ last.wire[1].flow_count = 2
    /\ Len(ft) = 2
    /\ last.wire[1].packet_count
         = FwdFlowStats(ft[1].id).packets + FwdFlowStats(ft[2].id).packets
    /\ last.wire[1].byte_count
         = FwdFlowStats(ft[1].id).bytes + FwdFlowStats(ft[2].id).bytes

----------------------------------------------------------------------------
(* C32: the xid of an error *)

(* C32: every error message a handler or a task callback sends carries the *)
(* xid of the request that caused it: the request being handled, or the    *)
(* request the task runs for.                                              *)
C32_ErrorsCarryRequestXid ==
    \A i \in 1..Len(last.wire) :
       last.wire[i].what = "error" => last.wire[i].xid = last.obj.xid

----------------------------------------------------------------------------
(* C33: an ADD that fails *)

(* C33: an ADD that ends in failure (overlap, bad emergency timeout, query *)
(* setup, ft_add or FWD.flow_create) leaves the entries of the flow table  *)
(* exactly as they were, also when its STRICT query matches an entry that  *)
(* is installed.                                                           *)
C33_FailedAddLeavesTable ==
    [][(last'.op = "flow_add" /\ nmsgs' = nmsgs + 1 /\ AddPath' # "SUCCESS")
          => ft' = ft]_vars

----------------------------------------------------------------------------
(* C34: the keys of the entries.  ADDs at 1.0 and 1.3 into two tables,     *)
(* with and without a cookie mask, and the DELETE-STRICTs that go with     *)
(* them; FWD puts a 1.3 flow into the table the message names.             *)

KeyInputs ==
    {In([BaseMsg EXCEPT !.kind = k, !.ver = v, !.table_id = t,
                        !.priority = p, !.cookie = c, !.cookie_mask = cm],
        [BaseResp EXCEPT !.fwd_table = t])
       : k \in {"flow_add", "flow_delete_strict"}, v \in {1, 4},
         t \in {0, 1}, p \in {1, 2}, c \in {0, 1}, cm \in {0, 1}}

KeyEnv == [inputs |-> KeyInputs, resps |-> {BaseResp}, max |-> MaxMsgs]

NextKeys ==
    \/ FlowAdd(KeyEnv)
    \/ FlowDeleteStrict(KeyEnv)

SpecKeys == InitOf(KeyEnv) /\ [][NextKeys]_vars

(* C34: after any sequence of flow-mods at any mix of wire versions the    *)
(* flow table never holds two entries with the same table id, the same     *)
(* match and the same priority.                                            *)
C34_UniqueKeys ==
    \A i, j \in 1..Len(ft) :
       (/\ ft[i].table_id = ft[j].table_id
        /\ ft[i].match = ft[j].match
        /\ ft[i].priority = ft[j].priority) => i = j

(* C35: at rest (between two steps of the machine) the flow ids the        *)
(* forwarding module holds (flow_create succeeded, no flow_delete since)   *)
(* are the ids of the entries of the flow table, after any sequence of     *)
(* ADD, overwrite, failed ADD, MODIFY and DELETE.                          *)
C35_FwdHoldsTableIds ==
    fwd_flows = {ft[i].id : i \in 1..Len(ft)}

(* C36: no handler reads a field of an inbound message after it released   *)
(* the message; in particular the version of every reply and error a       *)
(* handler sends is the version of the request, read before the release.   *)
C36_VersionReadBeforeRelease ==
    \A i \in 1..Len(last.wire) :
       last.wire[i].what # "flow_removed" => last.wire[i].ver = last.obj.ver

----------------------------------------------------------------------------
(* C37: the clock.  Time advances between messages and between slices of   *)
(* a flow-stats task; ADDs arrive while the task is running, and the       *)
(* iterator may or may not deliver the entries they insert.                *)

TimeInputs ==
         {In(VMsg("flow_add", 1, mt, 1), [BaseResp EXCEPT !.late = l])
            : mt \in {M1, M2, MW}, l \in BOOLEAN}
    \cup {In(VMsg("flow_stats_request", 1, MW, 1), BaseResp)}

TimeEnv == [inputs |-> TimeInputs, resps |-> {BaseResp}, max |-> MaxMsgs]

NextTime ==
    \/ FlowAdd(TimeEnv)
    \/ FlowStatsRequest(TimeEnv)
    \/ FlowStatsIter(TimeEnv)
    \/ Tick

SpecTime == InitOf(TimeEnv) /\ [][NextTime]_vars

(* The durations in a flow-stats reply *)
Durations(reply) ==
    {reply.entries[j].duration : j \in 1..Len(reply.entries)}

(* C37: every entry reported in a flow-stats response has insert_time no   *)
(* later than the current_time the handler captured when the request       *)
(* arrived, so its duration is non-negative; also for entries added to     *)
(* the flow table between slices of the stats task.                        *)
C37_DurationNonNegative ==
    /\ \A k \in tasks :
          (k.kind = "flow_stats" /\ k.reply # NoReply)
             => \A d \in Durations(k.reply[1]) : d >= 0
    /\ \A i \in 1..Len(last.wire) :
          last.wire[i].what = "flow_stats_reply"
             => \A d \in Durations(last.wire[i]) : d >= 0

----------------------------------------------------------------------------
(* The flow-stats task: ADDs, MODIFYs and flow-stats requests at two wire  *)
(* versions, with the failures ind_core_flow_stats_iter handles.           *)

FlowStatsInputs ==
         {In(VMsg("flow_add", v, mt, 1), BaseResp)
            : v \in {1, 4}, mt \in {M1, MW}}
    \cup {In(VMsg("flow_modify", v, MW, 2), BaseResp) : v \in {1, 4}}
    \cup {In(VMsg("flow_stats_request", v, MW, 1), BaseResp) : v \in {1, 4}}

FlowStatsEnv ==
    [inputs |-> FlowStatsInputs, resps |-> StatsEnv.resps, max |-> MaxMsgs]

NextFlowStats ==
    \/ FlowAdd(FlowStatsEnv)
    \/ FlowModify(FlowStatsEnv)
    \/ ModifyIter(FlowStatsEnv)
    \/ FlowStatsRequest(FlowStatsEnv)
    \/ FlowStatsIter(FlowStatsEnv)

SpecFlowStats == InitOf(FlowStatsEnv) /\ [][NextFlowStats]_vars

----------------------------------------------------------------------------
(* The flow tables that ADD and DELETE-STRICT build, for the properties    *)
(* that quantify over a DELETE run from every table.                       *)

TableInputs ==
         {In(Msg("flow_add", mt, p, {}, e), BaseResp)
            : mt \in {M1, M2, MW}, p \in {1, 2}, e \in {1, 2}}
    \cup {In(Msg("flow_delete_strict", mt, 1, {}, 1), BaseResp)
            : mt \in {M1, MW}}

TableEnv == [inputs |-> TableInputs, resps |-> {BaseResp}, max |-> MaxMsgs]

NextTables ==
    \/ FlowAdd(TableEnv)
    \/ FlowDeleteStrict(TableEnv)

SpecTables == InitOf(TableEnv) /\ [][NextTables]_vars

====
